---- MODULE Spec2Model ----
(***************************************************************************)
(* Animation engine: the playback state machine of Animation (lib.rs), its *)
(* frame loop, the cubic-bezier solver (cubic.rs), value interpolation     *)
(* (types.rs), the Sequencer (sequencer.rs) and the Choreographer          *)
(* (choreographer.rs).                                                     *)
(*                                                                         *)
(* Numbers.  The program computes in f64.  The model keeps every quantity  *)
(* on a grid where the f64 operations of the program are exact:            *)
(*   - clock readings and durations are whole milliseconds, durations are  *)
(*     powers of two;                                                      *)
(*   - a fraction (fraction_complete, a scrub position) is a whole number  *)
(*     of FracDen-ths;                                                     *)
(*   - curve parameters are whole numbers of 2048-ths, as the bisection of *)
(*     solve produces them;                                                *)
(*   - an eased value or a track's current value is a pair <<hi, lo>>      *)
(*     standing for hi / 2^16 + lo / 2^33 with 0 <= lo < 2^17.             *)
(***************************************************************************)
EXTENDS Integers, Sequences, FiniteSets, TLC

\* ------------------------------------------------------------------------
\* Bounds of the model
\* ------------------------------------------------------------------------
MaxTime == 3

MaxRepeat == 2

\* the most steps of a Sequencer and members of a Choreographer
MaxMembers == 2

\* ------------------------------------------------------------------------
\* Number grid
\* ------------------------------------------------------------------------
\* fractions are counted in FracDen-ths (a power of two)
FracDen == 2 * 16

\* curve parameters are counted in ParamDen-ths: 2^11, the midpoint of the
\* last bisection interval of solve
ParamDen == 2 * 1024

\* low limb of a two-limb value: 2^17
Limb == 2 * 65536

\* one unit, in high limbs: 2^16
One == 65536 * 1

Norm(h, l) == <<h + (l \div Limb), l % Limb>>

\* the whole number v as a two-limb value
Val(v) == <<v * One, 0>>

AddV(a, b) == Norm(a[1] + b[1], a[2] + b[2])

\* d * e for a whole number d
ScaleV(d, e) == Norm(d * e[1], d * e[2])

\* the fraction n / FracDen as a two-limb value
FracV(n) == <<(n * One) \div FracDen, 0>>

\* x * 2^11 + y as a number of 2^-33, for 0 <= x, y < 2^23
Shift11(x, y) == Norm(x \div 64, (x % 64) * 2048 + y)

\* a * b * c as a number of 2^-33, for 0 <= a, b, c <= 2^11
Mul3(a, b, c) == Shift11(((a * b) \div 2048) * c, ((a * b) % 2048) * c)

Clamp(x, lo, hi) == IF x < lo THEN lo ELSE IF x > hi THEN hi ELSE x

Min(x, y) == IF x < y THEN x ELSE y

\* ------------------------------------------------------------------------
\* cubic.rs: CubicBezier
\* ------------------------------------------------------------------------
\* control points are whole numbers (0 or 1), exact in f64
linear == [x1 |-> 0, y1 |-> 0, x2 |-> 1, y2 |-> 1]

\* CubicBezier::new(0.0, 0.0, 0.0, 1.0), an ease-out curve
easeOutCurve == [x1 |-> 0, y1 |-> 0, x2 |-> 0, y2 |-> 1]

\* EPSILON = 0.001 = 1 / EpsilonDen
EpsilonDen == 1000

\* bezier_x at parameter k / 1024, as a number of 2^-30
bezier_x(bz, k) ==
    3 * (1024 - k) * (1024 - k) * k * bz.x1
      + 3 * (1024 - k) * k * k * bz.x2
      + k * k * k

\* bezier_y at parameter j / 2048, as a two-limb value
bezier_y(bz, j) ==
    AddV(AddV(ScaleV(3 * bz.y1, Mul3(ParamDen - j, ParamDen - j, j)),
              ScaleV(3 * bz.y2, Mul3(ParamDen - j, j, j))),
         Mul3(j, j, j))

\* the bisection loop of solve; start and end in ParamDen-ths, t in FracDen-ths
RECURSIVE solveLoop(_, _, _, _)
solveLoop(bz, start, end, t) ==
    IF (end - start) * EpsilonDen > ParamDen
    THEN LET mid == (start + end) \div 2
             x == bezier_x(bz, mid \div 2)
         IN  IF x < t * ((1024 * 1024 * 1024) \div FracDen)
             THEN solveLoop(bz, mid, end, t)
             ELSE solveLoop(bz, start, mid, t)
    ELSE (start + end) \div 2

\* solve without the two early returns
solve_unclamped(bz, t) == bezier_y(bz, solveLoop(bz, 0, ParamDen, t))

\* CubicBezier::solve, t in FracDen-ths, result a two-limb value
solve(bz, t) ==
    IF t <= 0 THEN Val(0)
    ELSE IF t >= FracDen THEN Val(1)
    ELSE bezier_y(bz, solveLoop(bz, 0, ParamDen, t))

\* the bisection loop of solve for a NaN t: x < t is false at every step
RECURSIVE solveLoopNaN(_, _)
solveLoopNaN(start, end) ==
    IF (end - start) * EpsilonDen > ParamDen
    THEN solveLoopNaN(start, (start + end) \div 2)
    ELSE (start + end) \div 2

\* CubicBezier::solve for a NaN t: neither early return is taken
solve_nan(bz) == bezier_y(bz, solveLoopNaN(0, ParamDen))

\* fractions off the FracDen grid are counted in FineDen-ths: 0.1 and the
\* fractions written by a gesture are whole numbers of them
FineDen == 5 * FracDen

\* bezier_x at parameter k / 1024, a number x of 2^-30, is below n / FineDen
BelowFine(x, n) ==
    LET q == (1024 * 1024 * 1024) \div FineDen
        r == (1024 * 1024 * 1024) % FineDen
        d == x - n * q
    IN  d <= 0 \/ (d < FineDen /\ d * FineDen < n * r)

\* the bisection loop of solve for t in FineDen-ths
RECURSIVE solveLoopFine(_, _, _, _)
solveLoopFine(bz, start, end, t) ==
    IF (end - start) * EpsilonDen > ParamDen
    THEN LET mid == (start + end) \div 2
         IN  IF BelowFine(bezier_x(bz, mid \div 2), t)
             THEN solveLoopFine(bz, mid, end, t)
             ELSE solveLoopFine(bz, start, mid, t)
    ELSE (start + end) \div 2

\* CubicBezier::solve, t in FineDen-ths
solve_fine(bz, t) ==
    IF t <= 0 THEN Val(0)
    ELSE IF t >= FineDen THEN Val(1)
    ELSE bezier_y(bz, solveLoopFine(bz, 0, ParamDen, t))

\* ------------------------------------------------------------------------
\* types.rs: AnimatableValue and interpolate_value
\* ------------------------------------------------------------------------
\* start and end of a track are configured values, records of a kind and
\* whole-number components; a current value is [kind, v] with v built of
\* two-limb values (and the unit, for a Length)
Number(n) == [kind |-> "Number", n |-> n]

Color(r, g, b, a) == [kind |-> "Color", c |-> <<r, g, b, a>>]

Length(n, unit) == [kind |-> "Length", n |-> n, unit |-> unit]

Shadow(offset_x, offset_y, blur, spread, color, inset) ==
    [kind |-> "Shadow", offset_x |-> offset_x, offset_y |-> offset_y, blur |-> blur,
     spread |-> spread, color |-> color, inset |-> inset]

Visibility(vis) == [kind |-> "Visibility", vis |-> vis]

Cur(kind, v) == [kind |-> kind, v |-> v]

\* VisibilityValue::to_number
to_number(vis) ==
    CASE vis = "Visible" -> 1
      [] vis = "Hidden" -> 0
      [] vis = "Collapse" -> 0 - 1

\* VisibilityValue::from_number, of a two-limb value: > 0.5, < -0.5, else
from_number(n) ==
    IF n[1] > One \div 2 \/ (n[1] = One \div 2 /\ n[2] > 0) THEN "Visible"
    ELSE IF n[1] < 0 - (One \div 2) THEN "Collapse"
    ELSE "Hidden"

\* s + (e - s) * t with the difference taken the other way round
lerp_from_end(s, e, t) == AddV(Val(s), ScaleV(s - e, t))

\* s + (e - s) * t for whole s and e and a two-limb t
lerp(s, e, t) == AddV(Val(s), ScaleV(e - s, t))

\* the (r, g, b, a) of a Color or of a Shadow, component by component
lerp4(c1, c2, t) == [i \in 1 .. 4 |-> lerp(c1[i], c2[i], t)]

\* the payload of a Shadow as a current value
ShadowCur(offset_x, offset_y, blur, spread, color, inset) ==
    [offset_x |-> offset_x, offset_y |-> offset_y, blur |-> blur,
     spread |-> spread, color |-> color, inset |-> inset]

\* a Length as a current value
LengthCur(v, unit) == [kind |-> "Length", v |-> v, unit |-> unit]

\* prop.start.clone() as a current value
CloneValue(val) ==
    CASE val.kind = "Number" -> Cur(val.kind, Val(val.n))
      [] val.kind = "Color" -> Cur(val.kind, [i \in 1 .. 4 |-> Val(val.c[i])])
      [] val.kind = "Length" -> LengthCur(Val(val.n), val.unit)
      [] val.kind = "Shadow" ->
             Cur(val.kind, ShadowCur(Val(val.offset_x), Val(val.offset_y), Val(val.blur),
                                     Val(val.spread),
                                     [i \in 1 .. 4 |-> Val(val.color[i])], val.inset))
      [] val.kind = "Visibility" -> Cur(val.kind, val.vis)

\* interpolate_value that lets a pair of different variants through to the
\* arm of the start value, reading the end value's number
interpolate_value_coercing(start, end, t) ==
    LET e == IF end.kind \in {"Number", "Length"} THEN end.n
             ELSE IF end.kind = "Visibility" THEN to_number(end.vis)
             ELSE IF end.kind = "Shadow" THEN end.offset_x
             ELSE end.c[1]
    IN  CASE start.kind = "Number" -> Cur("Number", lerp(start.n, e, t))
          [] start.kind = "Length" -> LengthCur(lerp(start.n, e, t), start.unit)
          [] start.kind = "Color" ->
                 Cur("Color", [i \in 1 .. 4 |-> lerp(start.c[i], e, t)])
          [] start.kind = "Shadow" ->
                 Cur("Shadow", ShadowCur(lerp(start.offset_x, e, t), Val(start.offset_y),
                                         Val(start.blur), Val(start.spread),
                                         [i \in 1 .. 4 |-> Val(start.color[i])], start.inset))
          [] start.kind = "Visibility" ->
                 Cur("Visibility", from_number(lerp(to_number(start.vis), e, t)))

interpolate_value(start, end, t) ==
    CASE start.kind = "Number" /\ end.kind = "Number" ->
             Cur("Number", lerp(start.n, end.n, t))
      [] start.kind = "Color" /\ end.kind = "Color" ->
             Cur("Color", lerp4(start.c, end.c, t))
      [] start.kind = "Length" /\ end.kind = "Length" ->
             LengthCur(lerp(start.n, end.n, t), start.unit)
      [] start.kind = "Shadow" /\ end.kind = "Shadow" ->
             Cur("Shadow", ShadowCur(lerp(start.offset_x, end.offset_x, t),
                                     lerp(start.offset_y, end.offset_y, t),
                                     lerp(start.blur, end.blur, t),
                                     lerp(start.spread, end.spread, t),
                                     lerp4(start.color, end.color, t),
                                     start.inset))
      [] start.kind = "Visibility" /\ end.kind = "Visibility" ->
             Cur("Visibility",
                 from_number(lerp(to_number(start.vis), to_number(end.vis), t)))
      [] OTHER -> CloneValue(start)

\* ------------------------------------------------------------------------
\* spring.rs: Spring
\* ------------------------------------------------------------------------
\* velocity and current are counted in SpringDen-ths: 2^12
SpringDen == 4 * 1024

\* Spring::default(): Spring::new(300.0, 30.0)
DefaultStiffness == 300

DefaultDamping == 30

\* Spring::new
Spring(stiffness, damping) ==
    [stiffness |-> stiffness, damping |-> damping, mass |-> 1, velocity |-> 0, current |-> 0]

\* x / d on the grid: the grid point below the quotient, or the one above
\* it when up is TRUE and the quotient is not on the grid
Quot(x, d, up) == IF up /\ x % d # 0 THEN (x \div d) + 1 ELSE x \div d

\* x * n / d on the grid, for 0 <= n: x = q * d + r gives q * n + r * n / d
QuotMul(x, n, d, up) == (x \div d) * n + Quot((x % d) * n, d, up)

\* Spring::update without the damping force, rounded down
update_undamped(sp, target, dtNum, dtDen, up1, up2) ==
    LET spring_force == (0 - sp.stiffness) * (sp.current - target * SpringDen)
        acceleration == spring_force \div sp.mass
        velocity     == sp.velocity + QuotMul(acceleration, dtNum, dtDen, FALSE)
    IN  [sp EXCEPT !.velocity = velocity,
                   !.current = sp.current + QuotMul(velocity, dtNum, dtDen, FALSE)]

\* Spring::update(target, delta_time) with delta_time = dtNum / dtDen; the
\* two products by delta_time are rounded to the grid, down or (up1, up2) up
update(sp, target, dtNum, dtDen, up1, up2) ==
    LET spring_force  == (0 - sp.stiffness) * (sp.current - target * SpringDen)
        damping_force == (0 - sp.damping) * sp.velocity
        acceleration  == (spring_force + damping_force) \div sp.mass
        velocity      == sp.velocity + QuotMul(acceleration, dtNum, dtDen, up1)
    IN  [sp EXCEPT !.velocity = velocity,
                   !.current = sp.current + QuotMul(velocity, dtNum, dtDen, up2)]

\* Spring::reset that leaves the velocity alone
reset_keeping_velocity(sp, value) == [sp EXCEPT !.current = value * SpringDen]

\* Spring::reset
reset(sp, value) == [sp EXCEPT !.current = value * SpringDen, !.velocity = 0]

\* ------------------------------------------------------------------------
\* State
\* ------------------------------------------------------------------------
VARIABLES
    now,      \* performance.now(), in ms
    anim,     \* the Animation objects, by id
    owner,    \* who holds each Animation: the caller ("built", before
              \* start()), a handle ("handle"), nobody ("dropped")
    loop,     \* TRUE while a frame callback of spawn_animation_loop is
              \* registered for the Animation
    seq,      \* the Sequencer
    ch,       \* the Choreographer
    fx,       \* the outward effects of the last step, in order
    ret,      \* what the last call returned
    hist,     \* history: per Animation, the pause / resume / commit / cancel
              \* just made on it and the values it had before
    spring,   \* a Spring object held by the caller, and the number of
              \* update calls since its last reset
    gc        \* the GestureController

vars == <<now, anim, owner, loop, seq, ch, fx, ret, hist, spring, gc>>

Anims == {1, 2}

\* effects
Recompute(a) == [a |-> a, e |-> "recompute"]

Apply(a) == [a |-> a, e |-> "apply"]

ApplyFailed(a) == [a |-> a, e |-> "apply_failed"]

Completion(a) == [a |-> a, e |-> "completion"]

Callback(a) == [a |-> a, e |-> "callback"]

\* ------------------------------------------------------------------------
\* lib.rs: Animation
\* ------------------------------------------------------------------------
\* Animation::new followed by the builder calls animate / cubic / repeat /
\* auto_reverse / set_delay
NewAnimation(props, bz, duration, delay, repeat_count, auto_reverse, callback) ==
    [ properties        |-> props,
      keyframes         |-> <<>>,
      use_keyframes     |-> FALSE,
      use_spring        |-> FALSE,
      springs           |-> <<>>,
      gesture_velocity  |-> <<>>,
      bezier            |-> bz,
      duration          |-> duration,
      delay             |-> delay,
      start_time        |-> 0,
      last_time         |-> 0,
      pause_time        |-> 0,
      state             |-> "Idle",
      fraction_complete |-> 0,
      fraction_fine     |-> 0,
      fraction_nan      |-> FALSE,
      repeat_count      |-> repeat_count,
      current_repeat    |-> 0,
      auto_reverse      |-> auto_reverse,
      completion_callback |-> callback ]

\* add_number_property
Track(property_type, start, end) ==
    [ property_type |-> property_type,
      start         |-> Number(start),
      end           |-> Number(end),
      current       |-> CloneValue(Number(start)) ]

\* the builder call spring_default
spring_default(an) == [an EXCEPT !.use_spring = TRUE]

\* the builder call spring(_stiffness, _damping)
spring_with(an, stiffness, damping) == [an EXCEPT !.use_spring = TRUE]

\* the builder call spring_bouncy
spring_bouncy(an) == [an EXCEPT !.use_spring = TRUE]

\* the builder call spring_smooth
spring_smooth(an) == [an EXCEPT !.use_spring = TRUE]

\* PropertyType::from_str, for the names of the tracks of the model
from_str(s) ==
    CASE s = "x" -> "X"
      [] s = "y" -> "Y"
      [] OTHER -> "None"

\* the builder call with_velocity(property, velocity)
with_velocity(an, property, velocity) ==
    IF from_str(property) # "None"
    THEN [an EXCEPT !.gesture_velocity = Append(@, <<from_str(property), velocity>>)]
    ELSE an

\* extract_number, of a configured value
extract_number(value) ==
    CASE value.kind \in {"Number", "Length"} -> value.n
      [] value.kind = "Shadow" -> value.offset_x
      [] value.kind = "Visibility" -> to_number(value.vis)
      [] OTHER -> 0

\* a number of SpringDen-ths as a two-limb value
GridV(x) == <<x * (One \div SpringDen), 0>>

\* create_value_with_number, of a configured template and a two-limb number
create_value_with_number(template, num) ==
    CASE template.kind = "Number" -> Cur("Number", num)
      [] template.kind = "Length" -> LengthCur(num, template.unit)
      [] template.kind = "Color" ->
             Cur("Color", <<num, Val(template.c[2]), Val(template.c[3]), Val(template.c[4])>>)
      [] template.kind = "Shadow" ->
             Cur("Shadow", ShadowCur(num, Val(template.offset_y), Val(template.blur),
                                     Val(template.spread),
                                     [i \in 1 .. 4 |-> Val(template.color[i])], template.inset))
      [] template.kind = "Visibility" -> Cur("Visibility", from_number(num))

capture_start_values(an) ==
    [an EXCEPT
        !.properties =
            [i \in DOMAIN an.properties |->
                [an.properties[i] EXCEPT !.current = CloneValue(an.properties[i].start)]],
        !.springs =
            IF an.use_spring /\ an.properties # <<>>
            THEN [i \in DOMAIN an.properties |->
                     LET found == {j \in DOMAIN an.gesture_velocity :
                                      an.gesture_velocity[j][1] = an.properties[i].property_type}
                         first == CHOOSE j \in found : \A k \in found : j <= k
                         sp    == Spring(DefaultStiffness, DefaultDamping)
                     IN  reset(IF found # {}
                               THEN [sp EXCEPT !.velocity =
                                        an.gesture_velocity[first][2] * SpringDen]
                               ELSE sp,
                               extract_number(an.properties[i].start))]
            ELSE an.springs]

\* the body of start and of start_internal after the state test
start_body(an, t) ==
    [capture_start_values(an) EXCEPT
        !.start_time = t + an.delay,
        !.last_time = t,
        !.state = "Running",
        !.fraction_complete = 0, !.fraction_fine = 0, !.fraction_nan = FALSE,
        !.current_repeat = 0]

\* start_internal without the test of the state
start_internal_unguarded(an, t) == [an |-> start_body(an, t), ret |-> "Ok"]

\* start (up to the frame loop it spawns) and start_internal
start_internal(an, t) ==
    IF an.state = "Running"
    THEN [an |-> an, ret |-> "AlreadyRunning"]
    ELSE [an |-> start_body(an, t), ret |-> "Ok"]

pause(an, t) ==
    IF an.state = "Running"
    THEN [an EXCEPT !.state = "Paused", !.pause_time = t]
    ELSE an

\* resume that tests for "not Running" instead of "Paused"
resume_unless_running(an, t) ==
    IF an.state # "Running"
    THEN [an EXCEPT !.start_time = an.start_time + (t - an.pause_time),
                    !.state = "Running"]
    ELSE an

\* resume that leaves start_time alone
resume_without_shift(an, t) ==
    IF an.state = "Paused" THEN [an EXCEPT !.state = "Running"] ELSE an

resume(an, t) ==
    IF an.state = "Paused"
    THEN [an EXCEPT !.start_time = an.start_time + (t - an.pause_time),
                    !.state = "Running"]
    ELSE an

stop(an) == [an EXCEPT !.state = "Completed"]

\* reverse that overwrites start with end instead of swapping
reverse_overwriting(an, t) ==
    [an EXCEPT
        !.properties =
            [i \in DOMAIN an.properties |->
                [an.properties[i] EXCEPT !.start = an.properties[i].end]],
        !.start_time = t,
        !.fraction_complete = 0, !.fraction_fine = 0, !.fraction_nan = FALSE,
        !.state = "Running"]

reverse(an, t) ==
    [an EXCEPT
        !.properties =
            [i \in DOMAIN an.properties |->
                [an.properties[i] EXCEPT !.start = an.properties[i].end,
                                         !.end = an.properties[i].start]],
        !.start_time = t,
        !.fraction_complete = 0, !.fraction_fine = 0, !.fraction_nan = FALSE,
        !.state = "Running"]

\* every track's current from the eased value
interpolate_all(an, eased) ==
    [an EXCEPT !.properties =
        [i \in DOMAIN an.properties |->
            [an.properties[i] EXCEPT !.current =
                interpolate_value(an.properties[i].start, an.properties[i].end, eased)]]]

\* push_keyframe: time in FracDen-ths, props a sequence of pairs
\* <<property type, value>>
Keyframe(time, props) == [time |-> Clamp(time, 0, FracDen), properties |-> props]

\* add_keyframes
add_keyframes(an, kfs) ==
    [an EXCEPT !.keyframes = an.keyframes \o kfs, !.use_keyframes = TRUE]

\* sorted_kf.sort_by(time): a stable sort, by insertion
RECURSIVE sorted_insert(_, _)
sorted_insert(sorted, kf) ==
    IF sorted = <<>> THEN <<kf>>
    ELSE IF Head(sorted).time <= kf.time
    THEN <<Head(sorted)>> \o sorted_insert(Tail(sorted), kf)
    ELSE <<kf>> \o sorted

\* no sort: the keyframes in the order they were added
sort_by_time_as_added(kfs) == kfs

RECURSIVE sort_by_time(_)
sort_by_time(kfs) ==
    IF kfs = <<>> THEN <<>>
    ELSE sorted_insert(sort_by_time(SubSeq(kfs, 1, Len(kfs) - 1)), kfs[Len(kfs)])

\* the for loop of find_keyframe_range from index i on; local_progress in
\* FracDen-ths
RECURSIVE range_loop(_, _, _)
range_loop(sorted_kf, progress, i) ==
    IF i > Len(sorted_kf) - 1
    THEN [start_kf |-> sorted_kf[1], end_kf |-> sorted_kf[Len(sorted_kf)], local_progress |-> 0]
    ELSE IF progress >= sorted_kf[i].time /\ progress <= sorted_kf[i + 1].time
    THEN [start_kf |-> sorted_kf[i], end_kf |-> sorted_kf[i + 1],
          local_progress |-> ((progress - sorted_kf[i].time) * FracDen)
                                 \div (sorted_kf[i + 1].time - sorted_kf[i].time)]
    ELSE range_loop(sorted_kf, progress, i + 1)

find_keyframe_range(sorted_kf, progress) == range_loop(sorted_kf, progress, 1)

\* properties.iter().find(|(p, _)| p == property_type): the positions that
\* match
Matches(props, property_type) == {i \in DOMAIN props : props[i][1] = property_type}

FirstMatch(props, property_type) ==
    props[CHOOSE i \in Matches(props, property_type) :
              \A j \in Matches(props, property_type) : i <= j][2]

update_keyframes(an, progress) ==
    IF an.keyframes = <<>> THEN an
    ELSE LET r     == find_keyframe_range(sort_by_time(an.keyframes), progress)
             eased == solve(an.bezier, r.local_progress)
         IN  [an EXCEPT !.properties =
                 [i \in DOMAIN an.properties |->
                     LET pt == an.properties[i].property_type
                     IN  IF /\ Matches(r.start_kf.properties, pt) # {}
                            /\ Matches(r.end_kf.properties, pt) # {}
                         THEN [an.properties[i] EXCEPT !.current =
                                  interpolate_value(FirstMatch(r.start_kf.properties, pt),
                                                    FirstMatch(r.end_kf.properties, pt),
                                                    eased)]
                         ELSE an.properties[i]]]

\* set_fraction_complete without the clamp
set_fraction_complete_unclamped(an, f) ==
    IF an.use_keyframes
    THEN update_keyframes([an EXCEPT !.fraction_complete = f, !.fraction_fine = 0, !.fraction_nan = FALSE], f)
    ELSE interpolate_all([an EXCEPT !.fraction_complete = f, !.fraction_fine = 0, !.fraction_nan = FALSE], solve(an.bezier, f))

\* set_fraction_complete up to the apply_properties call; f in FracDen-ths
set_fraction_complete(an, f) ==
    LET c == Clamp(f, 0, FracDen)
    IN  IF an.use_keyframes
        THEN update_keyframes([an EXCEPT !.fraction_complete = c, !.fraction_fine = 0, !.fraction_nan = FALSE], c)
        ELSE interpolate_all([an EXCEPT !.fraction_complete = c, !.fraction_fine = 0, !.fraction_nan = FALSE], solve(an.bezier, c))

\* set_fraction_complete(NaN) up to the apply_properties call: clamp returns
\* NaN (fraction_nan is set, the two numeric parts are then meaningless), no
\* keyframe range holds NaN, and solve bisects with every comparison false
set_fraction_complete_nan(an) ==
    LET n == [an EXCEPT !.fraction_nan = TRUE, !.fraction_complete = 0, !.fraction_fine = 0]
    IN  IF an.use_keyframes
        THEN update_keyframes(n, FracDen + 1)
        ELSE interpolate_all(n, solve_nan(an.bezier))

\* get_fraction_complete, in FineDen-ths
get_fraction_complete(an) == an.fraction_complete * (FineDen \div FracDen) + an.fraction_fine

\* set_fraction_complete up to the apply_properties call, f in FineDen-ths;
\* off the FracDen grid the tracks are those of a curve-driven Animation
set_fraction_complete_fine(an, f) ==
    LET c == Clamp(f, 0, FineDen)
        k == FineDen \div FracDen
    IN  IF c % k = 0
        THEN set_fraction_complete(an, c \div k)
        ELSE interpolate_all([an EXCEPT !.fraction_complete = c \div k,
                                        !.fraction_fine = c % k,
                                        !.fraction_nan = FALSE],
                             solve_fine(an.bezier, c))

\* (elapsed / duration).min(1.0), in FracDen-ths
progress_of(an, t) == Min(((t - an.start_time) * FracDen) \div an.duration, FracDen)

update_cubic(an, t) ==
    LET progress == progress_of(an, t)
    IN  [ an   |-> interpolate_all([an EXCEPT !.fraction_complete = progress, !.fraction_fine = 0, !.fraction_nan = FALSE],
                                   solve(an.bezier, progress)),
          cont |-> progress < FracDen ]

\* |x| > 0.01 for x in SpringDen-ths
OffRest(x) == 100 * x > SpringDen \/ 100 * x < 0 - SpringDen

\* update_spring that also writes the elapsed share of the duration to
\* fraction_complete, as update_cubic does
update_spring_with_progress(an, delta) ==
    LET n  == Min(Len(an.properties), Len(an.springs))
        sp == [i \in 1 .. n |->
                  update(an.springs[i], extract_number(an.properties[i].end), delta, 1000,
                         FALSE, FALSE)]
    IN  [ an   |-> [an EXCEPT
                      !.fraction_complete = progress_of(an, an.last_time),
                      !.springs = [i \in DOMAIN an.springs |->
                                      IF i <= n THEN sp[i] ELSE an.springs[i]],
                      !.properties =
                          [i \in DOMAIN an.properties |->
                              IF i <= n
                              THEN [an.properties[i] EXCEPT !.current =
                                       create_value_with_number(an.properties[i].end,
                                                                GridV(sp[i].current))]
                              ELSE an.properties[i]]],
          cont |-> \E i \in 1 .. n :
                      \/ OffRest(sp[i].velocity)
                      \/ OffRest(sp[i].current
                                   - extract_number(an.properties[i].end) * SpringDen) ]

\* update_spring(delta / 1000.0), delta in ms; the products by delta_time
\* are rounded down to the grid
update_spring(an, delta) ==
    LET n  == Min(Len(an.properties), Len(an.springs))
        sp == [i \in 1 .. n |->
                  update(an.springs[i], extract_number(an.properties[i].end), delta, 1000,
                         FALSE, FALSE)]
    IN  [ an   |-> [an EXCEPT
                      !.springs = [i \in DOMAIN an.springs |->
                                      IF i <= n THEN sp[i] ELSE an.springs[i]],
                      !.properties =
                          [i \in DOMAIN an.properties |->
                              IF i <= n
                              THEN [an.properties[i] EXCEPT !.current =
                                       create_value_with_number(an.properties[i].end,
                                                                GridV(sp[i].current))]
                              ELSE an.properties[i]]],
          cont |-> \E i \in 1 .. n :
                      \/ OffRest(sp[i].velocity)
                      \/ OffRest(sp[i].current
                                   - extract_number(an.properties[i].end) * SpringDen) ]

update_keyframes_time(an, t) ==
    LET progress == progress_of(an, t)
    IN  [ an   |-> update_keyframes([an EXCEPT !.fraction_complete = progress, !.fraction_fine = 0, !.fraction_nan = FALSE], progress),
          cont |-> progress < FracDen ]

\* handle_completion that calls the callback on every branch
handle_completion_always_calling(an, t) ==
    LET n == [an EXCEPT !.current_repeat = an.current_repeat + 1]
    IN  IF n.repeat_count < 0 \/ n.current_repeat < n.repeat_count
        THEN [ an |-> IF n.auto_reverse
                      THEN reverse(n, t)
                      ELSE [n EXCEPT !.start_time = t, !.fraction_complete = 0, !.fraction_fine = 0, !.fraction_nan = FALSE],
               cb |-> n.completion_callback ]
        ELSE [ an |-> [n EXCEPT !.state = "Completed"], cb |-> n.completion_callback ]

\* handle_completion that compares the repeat counter with <= instead of <
handle_completion_one_more(an, t) ==
    LET n == [an EXCEPT !.current_repeat = an.current_repeat + 1]
    IN  IF n.repeat_count < 0 \/ n.current_repeat <= n.repeat_count
        THEN [ an |-> IF n.auto_reverse
                      THEN reverse(n, t)
                      ELSE [n EXCEPT !.start_time = t, !.fraction_complete = 0, !.fraction_fine = 0, !.fraction_nan = FALSE],
               cb |-> FALSE ]
        ELSE [ an |-> [n EXCEPT !.state = "Completed"], cb |-> n.completion_callback ]

\* handle_completion: the Animation after it, and whether the callback ran
handle_completion(an, t) ==
    LET n == [an EXCEPT !.current_repeat = an.current_repeat + 1]
    IN  IF n.repeat_count < 0 \/ n.current_repeat < n.repeat_count
        THEN [ an |-> IF n.auto_reverse
                      THEN reverse(n, t)
                      ELSE [n EXCEPT !.start_time = t, !.fraction_complete = 0, !.fraction_fine = 0, !.fraction_nan = FALSE],
               cb |-> FALSE ]
        ELSE [ an |-> [n EXCEPT !.state = "Completed"], cb |-> n.completion_callback ]

\* the longest time step of a frame, in ms
MaxDelta == 32

\* animate_frame that hands the engine the whole time since the last frame
animate_frame_uncapped(a, an, t, applyOk) ==
    IF an.state # "Running" THEN [an |-> an, fx |-> <<>>]
    ELSE IF t < an.start_time THEN [an |-> an, fx |-> <<>>]
    ELSE LET n  == [an EXCEPT !.last_time = t]
             u  == IF n.use_spring THEN update_spring(n, t - an.last_time)
                   ELSE IF n.use_keyframes THEN update_keyframes_time(n, t)
                   ELSE update_cubic(n, t)
         IN  IF ~applyOk
             THEN [an |-> u.an, fx |-> <<Recompute(a), ApplyFailed(a)>>]
             ELSE IF u.cont
             THEN [an |-> u.an, fx |-> <<Recompute(a), Apply(a)>>]
             ELSE LET h == handle_completion(u.an, t)
                  IN  [ an |-> h.an,
                        fx |-> <<Recompute(a), Apply(a), Completion(a)>>
                                 \o (IF h.cb THEN <<Callback(a)>> ELSE <<>>) ]

\* animate_frame that handles completion before it recomputes and applies
animate_frame_completing_first(a, an, t, applyOk) ==
    IF an.state # "Running" THEN [an |-> an, fx |-> <<>>]
    ELSE IF t < an.start_time THEN [an |-> an, fx |-> <<>>]
    ELSE LET delta == Min(t - an.last_time, MaxDelta)
             n  == [an EXCEPT !.last_time = t]
             u  == IF n.use_spring THEN update_spring(n, delta)
                   ELSE IF n.use_keyframes THEN update_keyframes_time(n, t)
                   ELSE update_cubic(n, t)
         IN  IF ~applyOk
             THEN [an |-> u.an, fx |-> <<Recompute(a), ApplyFailed(a)>>]
             ELSE IF u.cont
             THEN [an |-> u.an, fx |-> <<Recompute(a), Apply(a)>>]
             ELSE LET h == handle_completion(u.an, t)
                  IN  [ an |-> interpolate_all(h.an, solve(h.an.bezier, FracDen)),
                        fx |-> <<Completion(a)>>
                                 \o (IF h.cb THEN <<Callback(a)>> ELSE <<>>)
                                 \o <<Recompute(a), Apply(a)>> ]

\* animate_frame of Animation a at clock t; applyOk: apply_properties succeeds
animate_frame(a, an, t, applyOk) ==
    IF an.state # "Running" THEN [an |-> an, fx |-> <<>>]
    ELSE IF t < an.start_time THEN [an |-> an, fx |-> <<>>]
    ELSE LET delta == Min(t - an.last_time, MaxDelta)
             n  == [an EXCEPT !.last_time = t]
             u  == IF n.use_spring THEN update_spring(n, delta)
                   ELSE IF n.use_keyframes THEN update_keyframes_time(n, t)
                   ELSE update_cubic(n, t)
         IN  IF ~applyOk
             THEN [an |-> u.an, fx |-> <<Recompute(a), ApplyFailed(a)>>]
             ELSE IF u.cont
             THEN [an |-> u.an, fx |-> <<Recompute(a), Apply(a)>>]
             ELSE LET h == handle_completion(u.an, t)
                  IN  [ an |-> h.an,
                        fx |-> <<Recompute(a), Apply(a), Completion(a)>>
                                 \o (IF h.cb THEN <<Callback(a)>> ELSE <<>>) ]

\* ------------------------------------------------------------------------
\* Members of a coordinator, visited in order
\* ------------------------------------------------------------------------
\* set_fraction_complete(c)? on every member in order; the apply call of
\* member number failAt fails (0: none does) and ends the loop
RECURSIVE scrub_loop(_, _, _, _, _)
scrub_loop(f, ids, c, failAt, i) ==
    IF ids = <<>> THEN [anim |-> f, fx |-> <<>>, ret |-> "Ok"]
    ELSE LET a == Head(ids)
             g == [f EXCEPT ![a] = set_fraction_complete(f[a], c)]
         IN  IF i = failAt
             THEN [anim |-> g, fx |-> <<Recompute(a), ApplyFailed(a)>>, ret |-> "ApplyError"]
             ELSE LET r == scrub_loop(g, Tail(ids), c, failAt, i + 1)
                  IN  [r EXCEPT !.fx = <<Recompute(a), Apply(a)>> \o r.fx]

\* start_internal()? on every member in order
RECURSIVE play_loop(_, _, _)
play_loop(f, ids, t) ==
    IF ids = <<>> THEN [anim |-> f, ret |-> "Ok"]
    ELSE LET r == start_internal(f[Head(ids)], t)
         IN  IF r.ret # "Ok"
             THEN [anim |-> f, ret |-> r.ret]
             ELSE play_loop([f EXCEPT ![Head(ids)] = r.an], Tail(ids), t)

StepIds(steps) == [i \in DOMAIN steps |-> steps[i].animation]

\* pause()? on the first member only
pause_first(f, ids, t) ==
    IF ids = <<>> THEN f ELSE [f EXCEPT ![Head(ids)] = pause(@, t)]

\* pause()? on every member in order
RECURSIVE pause_all(_, _, _)
pause_all(f, ids, t) ==
    IF ids = <<>> THEN f
    ELSE pause_all([f EXCEPT ![Head(ids)] = pause(@, t)], Tail(ids), t)

\* stop()? on every member in order
RECURSIVE stop_all(_, _)
stop_all(f, ids) ==
    IF ids = <<>> THEN f
    ELSE stop_all([f EXCEPT ![Head(ids)] = stop(@)], Tail(ids))

\* resume()? on every member in order
RECURSIVE resume_all(_, _, _)
resume_all(f, ids, t) ==
    IF ids = <<>> THEN f
    ELSE resume_all([f EXCEPT ![Head(ids)] = resume(@, t)], Tail(ids), t)

\* reverse()? then resume()? on every member in order
RECURSIVE reverse_all(_, _, _)
reverse_all(f, ids, t) ==
    IF ids = <<>> THEN f
    ELSE reverse_all([f EXCEPT ![Head(ids)] = resume(reverse(@, t), t)], Tail(ids), t)

\* ------------------------------------------------------------------------
\* sequencer.rs: Sequencer; start and total_duration are in FracDen-ths of
\* a millisecond, duration in milliseconds, overlap in FracDen-ths
\* ------------------------------------------------------------------------
recalculate_duration(steps) ==
    LET ends == {0} \cup {steps[i].start + steps[i].duration * FracDen : i \in DOMAIN steps}
    IN  CHOOSE m \in ends : \A e \in ends : e <= m

\* add_step that scales the overlap by the duration of the step being added
add_step_own_duration(sq, a, duration, overlap) ==
    LET n == Len(sq.steps)
        start == IF n = 0
                 THEN 0
                 ELSE LET prev == sq.steps[n]
                          prev_end == prev.start + prev.duration * FracDen
                          overlap_offset == duration * Clamp(overlap, 0, FracDen)
                      IN  prev_end - overlap_offset
        steps == Append(sq.steps, [animation |-> a, start |-> start, duration |-> duration,
                                   overlap |-> Clamp(overlap, 0, FracDen)])
    IN  [sq EXCEPT !.steps = steps, !.total_duration = recalculate_duration(steps)]

\* add_step that uses the overlap as passed, without overlap.clamp(0.0, 1.0)
add_step_raw_overlap(sq, a, duration, overlap) ==
    LET n == Len(sq.steps)
        start == IF n = 0
                 THEN 0
                 ELSE LET prev == sq.steps[n]
                          prev_end == prev.start + prev.duration * FracDen
                          overlap_offset == prev.duration * overlap
                      IN  prev_end - overlap_offset
        steps == Append(sq.steps, [animation |-> a, start |-> start, duration |-> duration,
                                   overlap |-> overlap])
    IN  [sq EXCEPT !.steps = steps, !.total_duration = recalculate_duration(steps)]

add_step(sq, a, duration, overlap) ==
    LET n == Len(sq.steps)
        start == IF n = 0
                 THEN 0
                 ELSE LET prev == sq.steps[n]
                          prev_end == prev.start + prev.duration * FracDen
                          overlap_offset == prev.duration * Clamp(overlap, 0, FracDen)
                      IN  prev_end - overlap_offset
        steps == Append(sq.steps, [animation |-> a, start |-> start, duration |-> duration,
                                   overlap |-> Clamp(overlap, 0, FracDen)])
    IN  [sq EXCEPT !.steps = steps, !.total_duration = recalculate_duration(steps)]

\* the fraction seek_to passes to the Animation of a step; current_time is
\* in FracDen-ths of the unit of start, and the step is measured from 0
step_fraction_from_zero(step, current_time) ==
    LET step_start == step.start * FracDen
        step_end   == (step.start + step.duration * FracDen) * FracDen
    IN  IF current_time < step_start THEN 0
        ELSE IF current_time > step_end THEN FracDen
        ELSE current_time \div (step.duration * FracDen)

\* the fraction seek_to passes to the Animation of a step; current_time is
\* in FracDen-ths of the unit of start
step_fraction(step, current_time) ==
    LET step_start == step.start * FracDen
        step_end   == (step.start + step.duration * FracDen) * FracDen
    IN  IF current_time < step_start THEN 0
        ELSE IF current_time > step_end THEN FracDen
        ELSE (current_time - step_start) \div (step.duration * FracDen)

\* set_fraction_complete(..)? on the Animation of every step in order; the
\* apply call of step number failAt fails (0: none does) and ends the loop
RECURSIVE seek_loop(_, _, _, _, _)
seek_loop(f, steps, current_time, failAt, i) ==
    IF steps = <<>> THEN [anim |-> f, fx |-> <<>>, ret |-> "Ok"]
    ELSE LET a == Head(steps).animation
             g == [f EXCEPT ![a] =
                      set_fraction_complete(f[a], step_fraction(Head(steps), current_time))]
         IN  IF i = failAt
             THEN [anim |-> g, fx |-> <<Recompute(a), ApplyFailed(a)>>, ret |-> "ApplyError"]
             ELSE LET r == seek_loop(g, Tail(steps), current_time, failAt, i + 1)
                  IN  [r EXCEPT !.fx = <<Recompute(a), Apply(a)>> \o r.fx]

\* ------------------------------------------------------------------------
\* choreographer.rs: Choreographer; velocity is in tenths
\* ------------------------------------------------------------------------
VelocityThreshold == 3

\* should_complete with >= in place of >
should_complete_inclusive(c, velocity) == 2 * c.fraction >= FracDen \/ velocity >= VelocityThreshold

\* self.fraction > 0.5 || velocity > 0.3
should_complete(c, velocity) == 2 * c.fraction > FracDen \/ velocity > VelocityThreshold

\* how often Animation a is listed
Listed(ids, a) == Cardinality({i \in DOMAIN ids : ids[i] = a})

\* ------------------------------------------------------------------------
\* History
\* ------------------------------------------------------------------------
NoHist == [ph |-> "none"]

\* pause() just took a Running Animation to Paused at clock p; st and f are
\* its start_time and fraction_complete
Paused(an, p) == [ph |-> "paused", st |-> an.start_time, f |-> an.fraction_complete, p |-> p]

\* resume() at clock r followed that pause with nothing in between
Resumed(h, r) == [ph |-> "resumed", st |-> h.st, f |-> h.f, p |-> h.p, r |-> r]

\* the start/end pair of every track
StartEnd(an) == [i \in DOMAIN an.properties |-> <<an.properties[i].start, an.properties[i].end>>]

Swapped(pairs) == [i \in DOMAIN pairs |-> <<pairs[i][2], pairs[i][1]>>]

\* reverse() was just called once (n = 1) or twice in a row (n = 2) on an
\* Animation whose tracks were tr before the first call
\* the first call; the last call came at clock t in state from
Reversed(n, tr, from, t) == [ph |-> "reversed", n |-> n, tr |-> tr, from |-> from, t |-> t]

\* frames have run since a single reverse() at clock t on a Completed
\* Animation, and no call came in between
Replaying(h) == [ph |-> "replaying", t |-> h.t]

\* set_fraction_complete(f) was just called on an Animation that was an
Scrubbed(an, f) ==
    [ph |-> "scrubbed", f |-> f, state |-> an.state, start_time |-> an.start_time,
     current_repeat |-> an.current_repeat, tr |-> StartEnd(an)]

\* finish_interactive just committed on a Paused Animation that
\* update_interactive had scrubbed to f
Committed(f) == [ph |-> "committed", f |-> f]

\* a cancel at clock t just reversed, once, a Running or Paused Animation
\* with repeat count 1 whose tracks were tr
Cancelled(an, t) == [ph |-> "cancelled", tr |-> StartEnd(an), t |-> t]

\* seek_to(g) just set the fraction of an Animation that was an, last
\* through step number i, when the total duration was total
Sought(an, g, total, i) ==
    [ph |-> "sought", g |-> g, total |-> total, i |-> i, state |-> an.state]

Forget(a) == hist' = [hist EXCEPT ![a] = NoHist]

ForgetAll(ids) ==
    hist' = [a \in Anims |-> IF Listed(ids, a) > 0 THEN NoHist ELSE hist[a]]

\* ------------------------------------------------------------------------
\* Initial state: the Animations are built and configured, nothing started
\* ------------------------------------------------------------------------
Tracks == << Track("X", 0, 200), Track("Y", 40, -10) >>

\* a single track x from 0 to 200
OneTrack == << Track("X", 0, 200) >>

\* the configurations explored under every interleaving of calls: both
\* curves, durations 1 and 2 ms, with and without delay, repeat counts 1,
\* MaxRepeat and -1 (infinite), with and without auto-reverse and on_complete
Configs ==
    { NewAnimation(Tracks, linear, 2, 0, 1, FALSE, TRUE),
      NewAnimation(Tracks, easeOutCurve, 2, 1, 0 - 1, FALSE, FALSE),
      NewAnimation(Tracks, linear, 1, 0, MaxRepeat, TRUE, TRUE) }

NewSequencer == [steps |-> <<>>, fraction |-> 0, running |-> FALSE, total_duration |-> 0]

NewChoreographer ==
    [fraction |-> 0, interactive |-> FALSE, cancelled |-> FALSE, animations |-> <<>>]

\* the second Animation of the coordinator scenarios
Config2 == NewAnimation(Tracks, linear, 2, 0, 1, FALSE, TRUE)

\* GestureController::new; the velocity is the fraction num / den of px/ms,
\* the animation 0 when none is connected
NewGestureController ==
    [ fraction  |-> 0,
      tracking  |-> FALSE,
      velocity  |-> [num |-> 0, den |-> 1],
      start_y   |-> 0,
      current_y |-> 0,
      last_time |-> 0,
      animation |-> 0 ]

InitCommon ==
    /\ gc = NewGestureController
    /\ now = 0
    /\ owner = [a \in Anims |-> "built"]
    /\ loop = [a \in Anims |-> FALSE]
    /\ seq = NewSequencer
    /\ ch = NewChoreographer
    /\ fx = <<>>
    /\ ret = "Ok"
    /\ hist = [a \in Anims |-> NoHist]
    /\ spring = [sp |-> Spring(DefaultStiffness, DefaultDamping), updates |-> 0]

\* one Animation of any configuration
Init ==
    /\ InitCommon
    /\ \E c \in Configs : anim = [a \in Anims |-> IF a = 1 THEN c ELSE Config2]

\* ------------------------------------------------------------------------
\* The clock and the frame loop
\* ------------------------------------------------------------------------
AdvanceTo(limit) ==
    /\ now < limit
    /\ now' = now + 1
    /\ fx' = <<>>
    /\ UNCHANGED <<gc, spring, anim, owner, loop, seq, ch, ret, hist>>

Advance == AdvanceTo(MaxTime)

\* the frame callback asks for the next frame only while Running
reregisters_while_running(an) == an.state = "Running"

\* the frame callback asks for the next frame whatever the state
reregisters_always(an) == an.state = an.state

\* the frame callback of spawn_animation_loop asks for the next frame unless
\* the Animation is Completed after animate_frame
reregisters(an) == an.state # "Completed"

\* one run of the frame callback registered by spawn_animation_loop
Tick(a, applyOk) ==
    /\ loop[a]
    /\ LET r == animate_frame(a, anim[a], now, applyOk)
       IN  /\ anim' = [anim EXCEPT ![a] = r.an]
           /\ fx' = r.fx
           /\ loop' = [loop EXCEPT ![a] = reregisters(r.an)]
    /\ hist' = [hist EXCEPT ![a] = IF @.ph \in {"paused", "cancelled"} THEN @ ELSE NoHist]
    /\ UNCHANGED <<gc, spring, now, owner, seq, ch, ret>>

\* RefCell::borrow_mut: panics when the value is already borrowed
borrow_mut(borrowed) == IF borrowed THEN "Panic" ELSE "Ok"

\* the operations of an AnimationHandle that a completion callback may call
HandleOps == {"pause", "resume", "stop", "reverse", "set_fraction_complete"}

\* a handle operation op on Animation an at clock t, the RefCell being
\* borrowed or not when it is called
handle_call(borrowed, an, op, t) ==
    IF borrow_mut(borrowed) = "Panic" THEN [an |-> an, ret |-> "Panic"]
    ELSE [ an  |-> CASE op = "pause" -> pause(an, t)
                     [] op = "resume" -> resume(an, t)
                     [] op = "stop" -> stop(an)
                     [] op = "reverse" -> reverse(an, t)
                     [] op = "set_fraction_complete" -> set_fraction_complete(an, 0),
           ret |-> "Ok" ]

HandleCall(a, op) == [a |-> a, e |-> "handle_call", op |-> op]

\* one run of the frame callback in which animate_frame, holding the
\* RefCell, calls the completion callback, and the callback calls the handle
\* operation op of the same Animation
TickCalling(a, op) ==
    /\ loop[a]
    /\ LET r == animate_frame(a, anim[a], now, TRUE)
       IN  /\ r.fx # <<>>
           /\ r.fx[Len(r.fx)] = Callback(a)
           /\ LET c == handle_call(TRUE, r.an, op, now)
              IN  /\ anim' = [anim EXCEPT ![a] = c.an]
                  /\ ret' = c.ret
                  /\ fx' = Append(r.fx, HandleCall(a, op))
                  /\ loop' = [loop EXCEPT ![a] = reregisters(c.an)]
    /\ hist' = [hist EXCEPT ![a] = IF @.ph \in {"paused", "cancelled"} THEN @ ELSE NoHist]
    /\ UNCHANGED <<gc, spring, now, owner, seq, ch>>

\* the frame callbacks of the registered loops, run in order at clock t with
\* their style writes succeeding; lp tells which loops stay registered
RECURSIVE frame_loop(_, _, _, _)
frame_loop(f, lp, ids, t) ==
    IF ids = <<>> THEN [anim |-> f, loop |-> lp, fx |-> <<>>]
    ELSE LET a == Head(ids)
         IN  IF ~lp[a] THEN frame_loop(f, lp, Tail(ids), t)
             ELSE LET r == animate_frame(a, f[a], t, TRUE)
                      rest == frame_loop([f EXCEPT ![a] = r.an],
                                         [lp EXCEPT ![a] = reregisters(r.an)],
                                         Tail(ids), t)
                  IN  [rest EXCEPT !.fx = r.fx \o @]

\* one repaint: the clock advances and every registered frame callback runs
Frame ==
    /\ now < MaxTime
    /\ now' = now + 1
    /\ LET r == frame_loop(anim, loop, <<1, 2>>, now + 1)
       IN  anim' = r.anim /\ loop' = r.loop /\ fx' = r.fx
    /\ hist' = [a \in Anims |->
                  IF hist[a].ph = "reversed"
                  THEN IF hist[a].n = 1 /\ hist[a].from = "Completed"
                       THEN Replaying(hist[a])
                       ELSE NoHist
                  ELSE IF loop[a] /\ hist[a].ph \notin {"paused", "cancelled", "replaying"}
                  THEN NoHist
                  ELSE hist[a]]
    /\ UNCHANGED <<gc, spring, owner, seq, ch, ret>>

\* ------------------------------------------------------------------------
\* Calls on an Animation (before start) or on its AnimationHandle
\* ------------------------------------------------------------------------
Held(a) == owner[a] \in {"built", "handle"}

\* Animation::start(self): consumes the Animation
Start(a) ==
    /\ owner[a] = "built"
    /\ LET r == start_internal(anim[a], now)
       IN  /\ ret' = r.ret
           /\ anim' = [anim EXCEPT ![a] = r.an]
           /\ owner' = [owner EXCEPT ![a] = IF r.ret = "Ok" THEN "handle" ELSE "dropped"]
           /\ loop' = [loop EXCEPT ![a] = (r.ret = "Ok")]
    /\ fx' = <<>>
    /\ Forget(a)
    /\ UNCHANGED <<gc, spring, now, seq, ch>>

\* Animation::start_internal(&mut self), callable on the built Animation
StartInternal(a) ==
    /\ owner[a] = "built"
    /\ LET r == start_internal(anim[a], now)
       IN  ret' = r.ret /\ anim' = [anim EXCEPT ![a] = r.an]
    /\ fx' = <<>>
    /\ Forget(a)
    /\ UNCHANGED <<gc, spring, now, owner, loop, seq, ch>>

Pause(a) ==
    /\ Held(a)
    /\ anim' = [anim EXCEPT ![a] = pause(anim[a], now)]
    /\ hist' = [hist EXCEPT ![a] =
                  IF anim[a].state = "Running" THEN Paused(anim[a], now) ELSE NoHist]
    /\ fx' = <<>>
    /\ ret' = "Ok"
    /\ UNCHANGED <<gc, spring, now, owner, loop, seq, ch>>

Resume(a) ==
    /\ Held(a)
    /\ anim' = [anim EXCEPT ![a] = resume(anim[a], now)]
    /\ hist' = [hist EXCEPT ![a] = IF @.ph = "paused" THEN Resumed(@, now) ELSE NoHist]
    /\ fx' = <<>>
    /\ ret' = "Ok"
    /\ UNCHANGED <<gc, spring, now, owner, loop, seq, ch>>

Stop(a) ==
    /\ Held(a)
    /\ anim' = [anim EXCEPT ![a] = stop(anim[a])]
    /\ Forget(a)
    /\ fx' = <<>>
    /\ ret' = "Ok"
    /\ UNCHANGED <<gc, spring, now, owner, loop, seq, ch>>

Reverse(a) ==
    /\ Held(a)
    /\ anim' = [anim EXCEPT ![a] = reverse(anim[a], now)]
    /\ hist' = [hist EXCEPT ![a] =
                  IF @.ph = "reversed" /\ @.n = 1
                  THEN Reversed(2, @.tr, anim[a].state, now)
                  ELSE Reversed(1, StartEnd(anim[a]), anim[a].state, now)]
    /\ fx' = <<>>
    /\ ret' = "Ok"
    /\ UNCHANGED <<gc, spring, now, owner, loop, seq, ch>>

\* the fractions a caller passes, in FracDen-ths: below 0 and above 1 too
FractionArgs == {0 - 1, FracDen \div 4, FracDen + 1}

SetFractionComplete(a, f, applyOk) ==
    /\ Held(a)
    /\ anim' = [anim EXCEPT ![a] = set_fraction_complete(anim[a], f)]
    /\ hist' = [hist EXCEPT ![a] = Scrubbed(anim[a], f)]
    /\ fx' = <<Recompute(a), IF applyOk THEN Apply(a) ELSE ApplyFailed(a)>>
    /\ ret' = IF applyOk THEN "Ok" ELSE "ApplyError"
    /\ UNCHANGED <<gc, spring, now, owner, loop, seq, ch>>

\* ------------------------------------------------------------------------
\* One Animation driven through its own interface and its frame loop
\* ------------------------------------------------------------------------
Next ==
    \/ Advance
    \/ \E ok \in BOOLEAN : Tick(1, ok)
    \/ Start(1)
    \/ StartInternal(1)
    \/ Pause(1)
    \/ Resume(1)
    \/ Stop(1)
    \/ Reverse(1)
    \/ \E f \in FractionArgs, ok \in BOOLEAN : SetFractionComplete(1, f, ok)

Spec == Init /\ [][Next]_vars

\* ------------------------------------------------------------------------
\* One Animation that is started and then only ticked
\* ------------------------------------------------------------------------
\* every combination of duration, delay, repeat count and auto-reverse
TickConfigs ==
    { NewAnimation(Tracks, linear, d, dl, rc, ar, TRUE) :
        d \in {1, 2}, dl \in {0, 1}, rc \in {0 - 1} \cup (1 .. MaxRepeat), ar \in BOOLEAN }

InitTicks ==
    /\ InitCommon
    /\ \E c \in TickConfigs : anim = [a \in Anims |-> IF a = 1 THEN c ELSE Config2]

\* the clock runs long enough for MaxRepeat iterations
AdvanceLong == AdvanceTo(MaxTime + 2 * MaxRepeat)

NextTicks ==
    \/ AdvanceLong
    \/ Start(1)
    \/ \E ok \in BOOLEAN : Tick(1, ok)

SpecTicks == InitTicks /\ [][NextTicks]_vars

\* ------------------------------------------------------------------------
\* Calls on a Sequencer
\* ------------------------------------------------------------------------
\* the overlaps a caller passes, in FracDen-ths: sequential, half, above 1
OverlapArgs == {0, FracDen \div 2, FracDen + 1}

AddStep(a, overlap) ==
    /\ owner[a] = "handle"
    /\ Len(seq.steps) < MaxMembers
    /\ seq' = add_step(seq, a, anim[a].duration, overlap)
    /\ fx' = <<>>
    /\ ret' = "Ok"
    /\ UNCHANGED <<gc, spring, now, anim, owner, loop, ch, hist>>

Play ==
    /\ LET r == play_loop(anim, StepIds(seq.steps), now)
       IN  anim' = r.anim /\ ret' = r.ret
    /\ seq' = [seq EXCEPT !.running = TRUE, !.fraction = 0]
    /\ ForgetAll(StepIds(seq.steps))
    /\ fx' = <<>>
    /\ UNCHANGED <<gc, spring, now, owner, loop, ch>>

SeqPause ==
    /\ anim' = pause_all(anim, StepIds(seq.steps), now)
    /\ seq' = [seq EXCEPT !.running = FALSE]
    /\ ForgetAll(StepIds(seq.steps))
    /\ fx' = <<>>
    /\ ret' = "Ok"
    /\ UNCHANGED <<gc, spring, now, owner, loop, ch>>

SeqStop ==
    /\ anim' = stop_all(anim, StepIds(seq.steps))
    /\ seq' = [seq EXCEPT !.running = FALSE, !.fraction = 0]
    /\ ForgetAll(StepIds(seq.steps))
    /\ fx' = <<>>
    /\ ret' = "Ok"
    /\ UNCHANGED <<gc, spring, now, owner, loop, ch>>

\* the positions a caller seeks to, in FracDen-ths: below 0, a quarter, the
\* middle, above 1
SeekArgs == {0 - 1, FracDen \div 4, FracDen \div 2, FracDen + 1}

\* failAt is the position of the step whose apply_properties fails, 0 for
\* none
SeekTo(g, failAt) ==
    /\ failAt \in 0 .. Len(seq.steps)
    /\ LET c == Clamp(g, 0, FracDen)
           r == seek_loop(anim, seq.steps, c * seq.total_duration, failAt, 1)
       IN  /\ seq' = [seq EXCEPT !.fraction = c]
           /\ anim' = r.anim
           /\ fx' = r.fx
           /\ ret' = r.ret
    /\ LET ids == StepIds(seq.steps)
           reached == IF failAt = 0 THEN ids ELSE SubSeq(ids, 1, failAt)
           last(a) == CHOOSE i \in DOMAIN reached :
                         reached[i] = a /\ \A j \in DOMAIN reached : reached[j] = a => j <= i
       IN  hist' = [a \in Anims |->
                      IF Listed(reached, a) > 0
                      THEN Sought(anim[a], g, seq.total_duration, last(a))
                      ELSE IF Listed(ids, a) > 0 THEN NoHist ELSE hist[a]]
    /\ UNCHANGED <<gc, spring, now, owner, loop, ch>>

\* ------------------------------------------------------------------------
\* Calls on a Choreographer
\* ------------------------------------------------------------------------
AddAnimation(a) ==
    /\ owner[a] = "handle"
    /\ Len(ch.animations) < MaxMembers
    /\ ch' = [ch EXCEPT !.animations = Append(@, a)]
    /\ fx' = <<>>
    /\ ret' = "Ok"
    /\ UNCHANGED <<gc, spring, now, anim, owner, loop, seq, hist>>

\* begin_interactive that also clears the cancelled flag
BeginInteractiveClearing ==
    /\ ch' = [ch EXCEPT !.interactive = TRUE, !.fraction = 0, !.cancelled = FALSE]
    /\ anim' = pause_all(anim, ch.animations, now)
    /\ ForgetAll(ch.animations)
    /\ fx' = <<>>
    /\ ret' = "Ok"
    /\ UNCHANGED <<gc, spring, now, owner, loop, seq>>

BeginInteractive ==
    /\ ch' = [ch EXCEPT !.interactive = TRUE, !.fraction = 0]
    /\ anim' = pause_all(anim, ch.animations, now)
    /\ ForgetAll(ch.animations)
    /\ fx' = <<>>
    /\ ret' = "Ok"
    /\ UNCHANGED <<gc, spring, now, owner, loop, seq>>

\* update_interactive without the test of the interactive flag
UpdateInteractiveAlways(f, failAt) ==
    /\ failAt \in 0 .. Len(ch.animations)
    /\ LET c == Clamp(f, 0, FracDen)
           r == scrub_loop(anim, ch.animations, c, failAt, 1)
           reached == IF failAt = 0 THEN ch.animations
                      ELSE SubSeq(ch.animations, 1, failAt)
       IN  /\ ch' = [ch EXCEPT !.fraction = c]
           /\ anim' = r.anim
           /\ fx' = r.fx
           /\ ret' = r.ret
           /\ hist' = [a \in Anims |->
                         IF Listed(reached, a) > 0 THEN Scrubbed(anim[a], c) ELSE hist[a]]
    /\ UNCHANGED <<gc, spring, now, owner, loop, seq>>

\* failAt is the position of the member whose apply_properties fails, 0 for
\* none
UpdateInteractive(f, failAt) ==
    /\ failAt \in 0 .. Len(ch.animations)
    /\ IF ~ch.interactive
       THEN /\ failAt = 0
            /\ ret' = "Ok"
            /\ fx' = <<>>
            /\ UNCHANGED <<gc, spring, anim, ch, hist>>
       ELSE LET c == Clamp(f, 0, FracDen)
                r == scrub_loop(anim, ch.animations, c, failAt, 1)
                reached == IF failAt = 0 THEN ch.animations
                           ELSE SubSeq(ch.animations, 1, failAt)
            IN  /\ ch' = [ch EXCEPT !.fraction = c]
                /\ anim' = r.anim
                /\ fx' = r.fx
                /\ ret' = r.ret
                /\ hist' = [a \in Anims |->
                              IF Listed(reached, a) > 0 THEN Scrubbed(anim[a], c) ELSE hist[a]]
    /\ UNCHANGED <<gc, spring, now, owner, loop, seq>>

\* the velocities a caller passes, in tenths: below, at and above the
\* threshold
VelocityArgs == {0, VelocityThreshold, VelocityThreshold + 1}

FinishInteractive(velocity) ==
    /\ IF should_complete(ch, velocity)
       THEN /\ ch' = [ch EXCEPT !.interactive = FALSE]
            /\ anim' = resume_all(anim, ch.animations, now)
            /\ ret' = "True"
            /\ hist' = [a \in Anims |->
                          IF Listed(ch.animations, a) = 0 THEN hist[a]
                          ELSE IF hist[a].ph = "scrubbed" /\ anim[a].state = "Paused"
                               THEN Committed(hist[a].f)
                               ELSE NoHist]
       ELSE /\ ch' = [ch EXCEPT !.interactive = FALSE, !.cancelled = TRUE]
            /\ anim' = reverse_all(anim, ch.animations, now)
            /\ ret' = "False"
            /\ hist' = [a \in Anims |->
                          IF Listed(ch.animations, a) = 0 THEN hist[a]
                          ELSE IF /\ Listed(ch.animations, a) = 1
                                  /\ anim[a].state \in {"Running", "Paused"}
                                  /\ anim[a].repeat_count = 1
                               THEN Cancelled(anim[a], now)
                               ELSE NoHist]
    /\ fx' = <<>>
    /\ UNCHANGED <<gc, spring, now, owner, loop, seq>>

CancelInteractive ==
    /\ ch' = [ch EXCEPT !.interactive = FALSE, !.cancelled = TRUE]
    /\ anim' = reverse_all(anim, ch.animations, now)
    /\ ret' = "Ok"
    /\ hist' = [a \in Anims |->
                  IF Listed(ch.animations, a) = 0 THEN hist[a]
                  ELSE IF /\ Listed(ch.animations, a) = 1
                          /\ anim[a].state \in {"Running", "Paused"}
                          /\ anim[a].repeat_count = 1
                       THEN Cancelled(anim[a], now)
                       ELSE NoHist]
    /\ fx' = <<>>
    /\ UNCHANGED <<gc, spring, now, owner, loop, seq>>

\* ------------------------------------------------------------------------
\* gesture.rs: GestureController
\* ------------------------------------------------------------------------
\* friction = 0.92 = FrictionNum / FrictionDen
FrictionNum == 23

FrictionDen == 25

\* the pixels of displacement of a whole fraction
DisplacementScale == 500

\* the commit threshold of the velocity, 0.3 = SwipeNum / SwipeDen px/ms
SwipeNum == 3

SwipeDen == 10

Max(x, y) == IF x > y THEN x ELSE y

ConnectAnimation(a) ==
    /\ owner[a] = "handle"
    /\ gc' = [gc EXCEPT !.animation = a]
    /\ fx' = <<>>
    /\ ret' = "Ok"
    /\ UNCHANGED <<spring, now, anim, owner, loop, seq, ch, hist>>

\* on_tap_down(x, y, timestamp); x is stored and never read
OnTapDown(y, timestamp) ==
    /\ gc' = [gc EXCEPT !.tracking = TRUE, !.start_y = y, !.current_y = y,
                        !.last_time = timestamp, !.velocity = [num |-> 0, den |-> 1]]
    /\ IF gc.animation # 0
       THEN /\ anim' = [anim EXCEPT ![gc.animation] = pause(@, now)]
            /\ hist' = [hist EXCEPT ![gc.animation] = NoHist]
       ELSE UNCHANGED <<anim, hist>>
    /\ fx' = <<>>
    /\ ret' = "Ok"
    /\ UNCHANGED <<spring, now, owner, loop, seq, ch>>

\* on_tap_move that does not cap the step of a sample
new_fraction_uncapped(c, displacement) ==
    Clamp(c - (displacement * FineDen) \div DisplacementScale, 0, FineDen)

\* the fraction on_tap_move passes to set_fraction_complete, in FineDen-ths,
\* for the fraction c and the displacement in px
new_fraction(c, displacement) ==
    LET delta == Clamp((displacement * FineDen) \div DisplacementScale,
                       0 - FineDen \div 10, FineDen \div 10)
    IN  Clamp(c - delta, 0, FineDen)

\* on_tap_move(x, y, timestamp); applyOk: the style write succeeds
OnTapMove(y, timestamp, applyOk) ==
    /\ IF ~gc.tracking
       THEN /\ applyOk
            /\ fx' = <<>>
            /\ UNCHANGED <<gc, anim, hist>>
       ELSE LET a  == gc.animation
                dy == y - gc.current_y
                dt == Max(timestamp - gc.last_time, 1)
                moved == [gc EXCEPT !.velocity = [num |-> dy * FrictionNum,
                                                  den |-> dt * FrictionDen],
                                    !.current_y = y,
                                    !.last_time = timestamp]
            IN  IF a = 0
                THEN /\ applyOk
                     /\ gc' = moved
                     /\ fx' = <<>>
                     /\ UNCHANGED <<anim, hist>>
                ELSE LET n == set_fraction_complete_fine(
                                  anim[a],
                                  new_fraction(get_fraction_complete(anim[a]),
                                               y - gc.start_y))
                     IN  /\ anim' = [anim EXCEPT ![a] = n]
                         /\ gc' = [moved EXCEPT !.fraction = get_fraction_complete(n)]
                         /\ hist' = [hist EXCEPT ![a] = NoHist]
                         /\ fx' = <<Recompute(a),
                                    IF applyOk THEN Apply(a) ELSE ApplyFailed(a)>>
    /\ ret' = "Ok"
    /\ UNCHANGED <<spring, now, owner, loop, seq, ch>>

\* self.velocity > 0.3
fast(velocity) == velocity.num * SwipeDen > SwipeNum * velocity.den

\* on_tap_up that reverses without testing the fraction and the velocity
OnTapUpReversing ==
    /\ gc' = [gc EXCEPT !.tracking = FALSE]
    /\ IF gc.animation # 0
       THEN /\ anim' = [anim EXCEPT ![gc.animation] = resume(reverse(@, now), now)]
            /\ hist' = [hist EXCEPT ![gc.animation] = NoHist]
       ELSE UNCHANGED <<anim, hist>>
    /\ fx' = <<>>
    /\ ret' = "Ok"
    /\ UNCHANGED <<spring, now, owner, loop, seq, ch>>

\* on_tap_up
OnTapUp ==
    /\ gc' = [gc EXCEPT !.tracking = FALSE]
    /\ IF gc.animation # 0
       THEN LET an == anim[gc.animation]
                should_complete_now ==
                    \/ get_fraction_complete(an) * 2 > FineDen
                    \/ fast(gc.velocity)
            IN  /\ anim' = [anim EXCEPT ![gc.animation] =
                              IF should_complete_now
                              THEN resume(an, now)
                              ELSE resume(reverse(an, now), now)]
                /\ hist' = [hist EXCEPT ![gc.animation] = NoHist]
       ELSE UNCHANGED <<anim, hist>>
    /\ fx' = <<>>
    /\ ret' = "Ok"
    /\ UNCHANGED <<spring, now, owner, loop, seq, ch>>

\* ------------------------------------------------------------------------
\* One Animation under a GestureController
\* ------------------------------------------------------------------------
\* the vertical positions of the pointer, in px: steps of 0.05 of a fraction
YArgs == {0, 25, 100}

\* the timestamp of the move events, in ms; the pointer goes down at 0
MoveTimestamp == 100

InitGesture ==
    /\ InitCommon
    /\ \E bz \in {linear, easeOutCurve} :
           anim = [a \in Anims |->
                      IF a = 1 THEN NewAnimation(OneTrack, bz, 2, 0, 1, FALSE, TRUE)
                      ELSE Config2]

NextGesture ==
    \/ AdvanceTo(1)
    \/ Start(1)
    \/ ConnectAnimation(1)
    \/ \E y \in {0, 100} : OnTapDown(y, 0)
    \/ \E y \in YArgs, ok \in BOOLEAN : OnTapMove(y, MoveTimestamp, ok)
    \/ OnTapUp

SpecGesture == InitGesture /\ [][NextGesture]_vars

\* ------------------------------------------------------------------------
\* Two started Animations under a Sequencer
\* ------------------------------------------------------------------------
\* the first Animation of the coordinator scenarios: it repeats
Config1 == NewAnimation(Tracks, linear, 1, 0, MaxRepeat, TRUE, TRUE)

InitCoord ==
    /\ InitCommon
    /\ anim = [a \in Anims |-> IF a = 1 THEN Config1 ELSE Config2]

NextSeq ==
    \/ Frame
    \/ \E a \in Anims : Start(a)
    \/ \E a \in Anims, o \in OverlapArgs : AddStep(a, o)
    \/ Play
    \/ SeqPause
    \/ SeqStop

SpecSeq == InitCoord /\ [][NextSeq]_vars

\* the timeline is built at clock 0 and then scrubbed and paused; the style
\* write of the first step may fail
NextSeek ==
    \/ Frame
    \/ \E a \in Anims : now = 0 /\ Start(a)
    \/ \E a \in Anims, o \in OverlapArgs : now = 0 /\ AddStep(a, o)
    \/ SeqPause
    \/ \E g \in SeekArgs, k \in {0, 1} : SeekTo(g, k)

SpecSeek == InitCoord /\ [][NextSeek]_vars

\* ------------------------------------------------------------------------
\* Two started Animations under a Choreographer
\* ------------------------------------------------------------------------
\* the first Animation eases out over 1 ms after a delay of 1 ms
ConfigCh == NewAnimation(Tracks, easeOutCurve, 1, 1, 1, FALSE, TRUE)

InitCh ==
    /\ InitCommon
    /\ anim = [a \in Anims |-> IF a = 1 THEN ConfigCh ELSE Config2]

\* the positions a gesture scrubs to, in FracDen-ths: the middle, beyond 1
ScrubArgs == {FracDen \div 2, FracDen + 1}

\* the Animations are started and added at clock 0, then the gesture runs
NextCh ==
    \/ Frame
    \/ \E a \in Anims : now = 0 /\ Start(a)
    \/ \E a \in Anims : now = 0 /\ AddAnimation(a)
    \/ BeginInteractive
    \/ \E f \in ScrubArgs : UpdateInteractive(f, 0)
    \/ \E v \in VelocityArgs : FinishInteractive(v)
    \/ CancelInteractive

SpecCh == InitCh /\ [][NextCh]_vars

\* ------------------------------------------------------------------------
\* One Animation driven through its handle, one repaint per millisecond
\* ------------------------------------------------------------------------
NextFrames ==
    \/ Frame
    \/ Start(1)
    \/ Pause(1)
    \/ Resume(1)
    \/ Stop(1)
    \/ Reverse(1)

SpecFrames == Init /\ [][NextFrames]_vars

\* ------------------------------------------------------------------------
\* One keyframe-driven Animation that is scrubbed
\* ------------------------------------------------------------------------
\* the keyframe times, in FracDen-ths: 0, a quarter, a half, 1
KeyTimes == {0, FracDen \div 4, FracDen \div 2, FracDen}

\* the most keyframes of an Animation
MaxKeyframes == 3

\* the keyframe a caller gives for a time: x at every time, y at the ends
KeyframeAt(time) ==
    Keyframe(time,
             IF time \in {0, FracDen}
             THEN << <<"X", Number(10 * time + 10)>>, <<"Y", Number(0 - time)>> >>
             ELSE << <<"X", Number(0 - 10 * time)>> >>)

\* the orders in which keyframes of distinct times are added; the gap
\* between neighbouring times is a power of two, so that local_progress is
\* exact in f64
KeyOrders ==
    { ts \in UNION {[1 .. n -> KeyTimes] : n \in 1 .. MaxKeyframes} :
        /\ \A i, j \in DOMAIN ts : i # j => ts[i] # ts[j]
        /\ \A i, j \in DOMAIN ts :
              (ts[i] < ts[j] /\ \A k \in DOMAIN ts : ~(ts[i] < ts[k] /\ ts[k] < ts[j]))
                  => (ts[j] - ts[i]) \in {FracDen \div 4, FracDen \div 2, FracDen} }

InitKeyframes ==
    /\ InitCommon
    /\ \E ts \in KeyOrders :
          anim = [a \in Anims |->
                    IF a = 1
                    THEN add_keyframes(NewAnimation(Tracks, linear, 2, 0, 1, FALSE, TRUE),
                                       [i \in DOMAIN ts |-> KeyframeAt(ts[i])])
                    ELSE Config2]

\* the positions a caller scrubs to, in FracDen-ths: every quarter
KeyFractionArgs == {0, FracDen \div 4, FracDen \div 2, 3 * (FracDen \div 4), FracDen}

NextKeyframes ==
    \/ Advance
    \/ Start(1)
    \/ \E ok \in BOOLEAN : Tick(1, ok)
    \/ \E f \in KeyFractionArgs, ok \in BOOLEAN : SetFractionComplete(1, f, ok)

SpecKeyframes == InitKeyframes /\ [][NextKeyframes]_vars

\* ------------------------------------------------------------------------
\* Properties of one Animation (specification Spec)
\* ------------------------------------------------------------------------
CountFx(s, e) == Cardinality({i \in DOMAIN s : s[i] = e})

\* C1: a step that takes an Animation out of Completed is a reverse() or a
\* start()/start_internal() call; pause(), resume(), stop(),
\* set_fraction_complete() and frame ticks leave a Completed Animation
\* Completed.
C1_CompletedLeftOnlyByReverseOrStart ==
    [][\A a \in Anims :
          (anim[a].state = "Completed" /\ anim'[a].state # "Completed")
              => (Reverse(a) \/ Start(a) \/ StartInternal(a))]_vars

\* a set_fraction_complete() call has just acted on a Completed Animation
\* whose frame loop has ended
C1_Witness ==
    /\ anim[1].state = "Completed"
    /\ ~loop[1]
    /\ owner[1] = "handle"
    /\ fx = <<Recompute(1), ApplyFailed(1)>>

\* C2: start() or start_internal() on a Running Animation returns the
\* "already running" error and leaves every field of the Animation (tracks,
\* start_time, last_time, fraction_complete, repeat counter, state) as it was.
C2_StartWhileRunningChangesNothing ==
    [][\A a \in Anims :
          (anim[a].state = "Running" /\ (Start(a) \/ StartInternal(a)))
              => (ret' = "AlreadyRunning" /\ anim'[a] = anim[a])]_vars

\* start() has just failed on an Animation that was Running part-way
C2_Witness ==
    /\ ret = "AlreadyRunning"
    /\ owner[1] = "dropped"
    /\ anim[1].state = "Running"
    /\ anim[1].fraction_complete > 0

\* C3: in every step the completion callback of an Animation runs once if
\* completion handling (the one place that increments the repeat counter)
\* moved the Animation to Completed and a callback is configured, and not
\* at all otherwise: not on stop(), not on a completion that loops.
C3_CallbackOncePerCompletion ==
    [][\A a \in Anims :
          CountFx(fx', Callback(a)) =
              IF /\ anim'[a].current_repeat = anim[a].current_repeat + 1
                 /\ anim'[a].state = "Completed"
                 /\ anim[a].completion_callback
              THEN 1 ELSE 0]_vars

\* a tick has just completed the last iteration and called the callback
C3_Witness ==
    /\ fx = <<Recompute(1), Apply(1), Completion(1), Callback(1)>>
    /\ anim[1].state = "Completed"
    /\ anim[1].current_repeat > 1

\* what a tick computes: progress, track values, state, repeat counter
SameProgress(x, y) ==
    /\ x.fraction_complete = y.fraction_complete
    /\ x.properties = y.properties
    /\ x.state = y.state
    /\ x.current_repeat = y.current_repeat

\* C4: when a Running Animation is paused at clock p and resumed at clock
\* r >= p with no call in between, resume() adds exactly r - p to
\* start_time and leaves fraction_complete at its value before the pause;
\* the first tick after the resume, at clock T, computes what a tick at
\* clock p + (T - r) would have computed had the Animation not been paused.
C4_ResumeShiftsStartTime ==
    [][\A a \in Anims :
          /\ (hist[a].ph = "paused" /\ Resume(a)) =>
                /\ anim'[a].start_time = hist[a].st + (now - hist[a].p)
                /\ anim'[a].fraction_complete = hist[a].f
                /\ anim'[a].state = "Running"
          /\ \A ok \in BOOLEAN :
                (hist[a].ph = "resumed" /\ Tick(a, ok)) =>
                    SameProgress(anim'[a],
                        animate_frame(a, [anim[a] EXCEPT !.start_time = hist[a].st],
                                      hist[a].p + (now - hist[a].r), ok).an)]_vars

\* an Animation paused part-way has just been resumed at a later clock
C4_Witness ==
    /\ hist[1].ph = "resumed"
    /\ hist[1].r > hist[1].p
    /\ hist[1].f > 0
    /\ hist[1].f < FracDen
    /\ loop[1]

\* C5: one reverse() exchanges start and end of every track, two reverse()
\* calls in a row give back the original start and end.
C5_ReverseTwiceRestores ==
    \A a \in Anims :
        hist[a].ph = "reversed" =>
            StartEnd(anim[a]) = IF hist[a].n = 2 THEN hist[a].tr ELSE Swapped(hist[a].tr)

\* reverse() has just been called twice in a row
C5_Witness == hist[1].ph = "reversed" /\ hist[1].n = 2

\* C6: right after set_fraction_complete(f), in whatever state the
\* Animation was, fraction_complete is clamp(f, 0, 1) and the state,
\* start_time, repeat counter and every track's start and end are the ones
\* from before the call.
C6_SetFractionClampsAndKeepsState ==
    \A a \in Anims :
        hist[a].ph = "scrubbed" =>
            /\ anim[a].fraction_complete = Clamp(hist[a].f, 0, FracDen)
            /\ anim[a].state = hist[a].state
            /\ anim[a].start_time = hist[a].start_time
            /\ anim[a].current_repeat = hist[a].current_repeat
            /\ StartEnd(anim[a]) = hist[a].tr

\* set_fraction_complete has acted on an Idle Animation
C6_Witness ==
    /\ hist[1].ph = "scrubbed"
    /\ hist[1].f > FracDen
    /\ anim[1].state = "Idle"

\* ------------------------------------------------------------------------
\* Properties of an Animation that is only ticked (specification SpecTicks)
\* ------------------------------------------------------------------------
\* C7: with repeat count n >= 1 the repeat counter (the number of times
\* completion handling ran) never exceeds n and the Animation is Completed
\* exactly when it has reached n; every completion before the n-th leaves the
\* Animation Running with start_time = now and fraction_complete = 0, the
\* tracks swapped if auto-reverse is set and untouched otherwise; with
\* repeat count -1 the Animation is never Completed.
C7_FiniteRepeatCompletesAtNth ==
    [][\A a \in Anims :
          LET old == anim[a]
              new == anim'[a]
          IN  /\ new.repeat_count >= 1 =>
                    /\ new.current_repeat <= new.repeat_count
                    /\ (new.state = "Completed") <=> (new.current_repeat = new.repeat_count)
              /\ new.repeat_count < 0 => new.state # "Completed"
              /\ ( /\ new.current_repeat = old.current_repeat + 1
                   /\ (new.repeat_count < 0 \/ new.current_repeat < new.repeat_count) )
                    => /\ new.state = "Running"
                       /\ new.start_time = now
                       /\ new.fraction_complete = 0
                       /\ StartEnd(new) = IF new.auto_reverse
                                          THEN Swapped(StartEnd(old))
                                          ELSE StartEnd(old)]_vars

\* an auto-reversing Animation with repeat count MaxRepeat has completed
C7_Witness ==
    /\ anim[1].state = "Completed"
    /\ anim[1].repeat_count = MaxRepeat
    /\ anim[1].current_repeat = MaxRepeat
    /\ anim[1].auto_reverse
    /\ anim[1].duration = 2

\* ------------------------------------------------------------------------
\* Properties of a Sequencer (specification SpecSeq)
\* ------------------------------------------------------------------------
\* C8: after a play() call every step's Animation is Running with
\* fraction_complete = 0 and repeat counter 0, whatever its state was.
C8_PlayStartsEveryMember ==
    [][Play =>
          \A i \in DOMAIN seq.steps :
              LET m == anim'[seq.steps[i].animation]
              IN  m.state = "Running" /\ m.fraction_complete = 0 /\ m.current_repeat = 0]_vars

C9_CommitContinuesFromScrub ==
    [][\A a \in Anims :
          /\ hist'[a].ph = "committed" => anim'[a].state = "Running"
          /\ (hist[a].ph = "committed" /\ loop[a] /\ now' = now + 1)
                => anim'[a].fraction_complete >= hist[a].f]_vars

\* C12: finish_interactive(velocity) returns true exactly when
\* fraction > 0.5 or velocity > 0.3, both strict; it always leaves
\* interactive = false; it sets cancelled = true when it returns false and
\* leaves cancelled as it was when it returns true.
C12_FinishCommitRule ==
    [][\A v \in VelocityArgs :
          FinishInteractive(v) =>
              /\ (ret' = "True") <=> (2 * ch.fraction > FracDen \/ v > VelocityThreshold)
              /\ ret' \in {"True", "False"}
              /\ ~ch'.interactive
              /\ ch'.cancelled = IF ret' = "False" THEN TRUE ELSE ch.cancelled]_vars

\* finish_interactive has just cancelled two members at fraction 0.5
C12_Witness ==
    /\ ret = "False"
    /\ 2 * ch.fraction = FracDen
    /\ ch.cancelled
    /\ ~ch.interactive
    /\ Len(ch.animations) = 2
    /\ \A a \in Anims : hist[a].ph = "cancelled"

\* C10: after a cancel on a Running or Paused member with repeat count 1 the
\* member has start and end swapped and is Running; repaints come once per
\* millisecond, and once the clock has advanced by the member's duration the
\* member is Completed with every track's current value equal to the track's
\* start value from before the cancel.
C10_CancelRunsBackToStart ==
    \A a \in Anims :
        hist[a].ph = "cancelled"
            => /\ StartEnd(anim[a]) = Swapped(hist[a].tr)
               /\ IF now < hist[a].t + anim[a].duration
                  THEN anim[a].state = "Running"
                  ELSE /\ anim[a].state = "Completed"
                       /\ \A i \in DOMAIN anim[a].properties :
                             anim[a].properties[i].current = CloneValue(hist[a].tr[i][1])

\* ------------------------------------------------------------------------
\* Properties under one repaint per millisecond (specification SpecFrames)
\* ------------------------------------------------------------------------
\* C11: reverse() on a started, Completed Animation with repeat count 1 makes it
\* Running with fraction_complete 0; the repaints that follow advance
\* fraction_complete above 0, and once the clock has advanced by the
\* duration the Animation is Completed again with every track's current
\* value equal to its end, the swapped target.
C11_ReverseReplaysCompleted ==
    \A a \in Anims :
        LET h  == hist[a]
            an == anim[a]
        IN  /\ (owner[a] = "handle" /\ h.ph = "reversed" /\ h.n = 1 /\ h.from = "Completed")
                  => an.state = "Running" /\ an.fraction_complete = 0
            /\ (owner[a] = "handle" /\ h.ph = "replaying" /\ an.repeat_count = 1)
                  => IF now < h.t + an.duration
                     THEN an.state = "Running" /\ an.fraction_complete > 0
                     ELSE /\ an.state = "Completed"
                          /\ \A i \in DOMAIN an.properties :
                                an.properties[i].current = CloneValue(an.properties[i].end)

\* ------------------------------------------------------------------------
\* The pure functions interpolate_value and CubicBezier::solve, called
\* directly: fx holds the call, ret the value returned
\* ------------------------------------------------------------------------
InterpolateCall(start, end, t) ==
    [e |-> "interpolate_value", start |-> start, end |-> end, t |-> t]

SolveCall(bz, t) == [e |-> "solve", bezier |-> bz, t |-> t]

\* values of every variant, two or more of each
Values ==
    { Number(0), Number(10), Number(0 - 3),
      Color(0, 0, 0, 1), Color(255, 255, 255, 1), Color(30, 60, 90, 0),
      Length(0, "px"), Length(100, "percent"), Length(8, "px"),
      Shadow(0, 2, 4, 0, <<0, 0, 0, 1>>, FALSE),
      Shadow(4, 8, 16, 2, <<255, 0, 0, 0>>, TRUE),
      Visibility("Visible"), Visibility("Hidden"), Visibility("Collapse") }

\* t = -0.5, 0, 0.25, 0.5, 1, 1.5 and the eased value of the linear curve at 0.5
InterpolateArgs ==
    {FracV(n) : n \in {0 - (FracDen \div 2), 0, FracDen \div 4, FracDen \div 2, FracDen,
                       FracDen + (FracDen \div 2)}}
        \cup {solve(linear, FracDen \div 2)}

\* every curve with control points 0 or 1
Curves == [x1 : {0, 1}, y1 : {0, 1}, x2 : {0, 1}, y2 : {0, 1}]

\* t from -0.5 to 1.5, in FracDen-ths
SolveArgs ==
    {0 - (FracDen \div 2), 0 - 1, 0, 1, FracDen \div 4, FracDen \div 2, FracDen - 1, FracDen,
     FracDen + 1, FracDen + (FracDen \div 2)}

Interpolate(start, end, t) ==
    /\ fx' = <<InterpolateCall(start, end, t)>>
    /\ ret' = interpolate_value(start, end, t)
    /\ UNCHANGED <<gc, spring, now, anim, owner, loop, seq, ch, hist>>

Solve(bz, t) ==
    /\ fx' = <<SolveCall(bz, t)>>
    /\ ret' = solve(bz, t)
    /\ UNCHANGED <<gc, spring, now, anim, owner, loop, seq, ch, hist>>

InitPure ==
    /\ InitCommon
    /\ anim = [a \in Anims |-> Config2]

NextPure ==
    \/ \E start \in Values, end \in Values, t \in InterpolateArgs : Interpolate(start, end, t)
    \/ \E bz \in Curves, t \in SolveArgs : Solve(bz, t)

SpecPure == InitPure /\ [][NextPure]_vars

\* ------------------------------------------------------------------------
\* One Animation of a single track x from 0 to 200, scrubbed
\* ------------------------------------------------------------------------
InitScrub ==
    /\ InitCommon
    /\ \E bz \in {linear, easeOutCurve}, duration \in {1, 2} :
           anim = [a \in Anims |->
                      IF a = 1 THEN NewAnimation(OneTrack, bz, duration, 0, 1, FALSE, TRUE)
                      ELSE Config2]

\* fractions -1/32, 0, 1/8, ..., 7/8, 1 and 33/32
ScrubFractions == {0 - 1, FracDen + 1} \cup {n * (FracDen \div 8) : n \in 0 .. 8}

NextScrub ==
    \/ Advance
    \/ Start(1)
    \/ \E ok \in BOOLEAN : Tick(1, ok)
    \/ \E f \in ScrubFractions, ok \in BOOLEAN : SetFractionComplete(1, f, ok)

SpecScrub == InitScrub /\ [][NextScrub]_vars

\* ------------------------------------------------------------------------
\* A Spring stepped by its caller
\* ------------------------------------------------------------------------
\* the number of update calls of test_spring_converges_to_target
SpringSteps == 180

\* update(100.0, 1.0 / 60.0)
SpringTarget == 100

FrameRate == 60

SpringReset(value) ==
    /\ spring.updates > 0
    /\ spring' = [sp |-> reset(spring.sp, value), updates |-> 0]
    /\ UNCHANGED <<gc, now, anim, owner, loop, seq, ch, fx, ret, hist>>

SpringUpdate(target, dtNum, dtDen) ==
    /\ spring.updates < SpringSteps
    /\ \E up1 \in BOOLEAN, up2 \in BOOLEAN :
           spring' = [sp |-> update(spring.sp, target, dtNum, dtDen, up1, up2),
                      updates |-> spring.updates + 1]
    /\ UNCHANGED <<gc, now, anim, owner, loop, seq, ch, fx, ret, hist>>

InitSpring ==
    /\ InitCommon
    /\ anim = [a \in Anims |-> Config2]

NextSpring ==
    \/ SpringReset(0)
    \/ SpringUpdate(SpringTarget, 1, FrameRate)

SpecSpring == InitSpring /\ [][NextSpring]_vars

\* ------------------------------------------------------------------------
\* A Spring of any stiffness and damping, reset and updated by the caller
\* ------------------------------------------------------------------------
\* the most update calls between two resets
RestSteps == 2

\* the stiffness and damping of the Spring
StiffnessArgs == {0, 100, DefaultStiffness}

DampingArgs == {0, DefaultDamping}

\* the values a caller resets to and the targets of update
PositionArgs == {0 - 5, 0, 50}

\* the time steps of update, in seconds, as <<numerator, denominator>>
TimeStepArgs == {<<0, 1>>, <<1, FrameRate>>, <<2, FrameRate>>}

\* Spring::new(stiffness, damping), called by the caller
SpringNew(stiffness, damping) ==
    /\ spring' = [sp |-> Spring(stiffness, damping), updates |-> 0]
    /\ UNCHANGED <<gc, now, anim, owner, loop, seq, ch, fx, ret, hist>>

NextSpringRest ==
    \/ \E stiffness \in StiffnessArgs, damping \in DampingArgs :
           SpringNew(stiffness, damping)
    \/ \E value \in PositionArgs : SpringReset(value)
    \/ \E target \in PositionArgs, dt \in TimeStepArgs :
           spring.updates < RestSteps /\ SpringUpdate(target, dt[1], dt[2])

SpecSpringRest == InitSpring /\ [][NextSpringRest]_vars

\* ------------------------------------------------------------------------
\* A Sequencer without steps and a Choreographer without members
\* ------------------------------------------------------------------------
NextEmpty ==
    \/ Frame
    \/ \E a \in Anims : Start(a)
    \/ Play
    \/ SeqPause
    \/ SeqStop
    \/ \E g \in SeekArgs : SeekTo(g, 0)
    \/ BeginInteractive
    \/ \E f \in ScrubArgs : UpdateInteractive(f, 0)
    \/ \E v \in VelocityArgs : FinishInteractive(v)
    \/ CancelInteractive

SpecEmpty == InitCoord /\ [][NextEmpty]_vars

\* ------------------------------------------------------------------------
\* One Animation, spring-driven or curve-driven, repainted at uneven
\* intervals
\* ------------------------------------------------------------------------
\* the last clock value of these runs, in ms
MaxClock == 80

\* the time between two repaints, in ms: a frame at 60 Hz, a stalled frame
JumpArgs == {16, 40}

Jump(d) ==
    /\ now + d <= MaxClock
    /\ now' = now + d
    /\ fx' = <<>>
    /\ UNCHANGED <<gc, anim, owner, loop, seq, ch, ret, hist, spring>>

InitSpringAnim ==
    /\ InitCommon
    /\ \E delay \in {0, 16}, use_spring \in BOOLEAN :
          LET an == NewAnimation(OneTrack, linear, 2, delay, 1, FALSE, TRUE)
          IN  anim = [a \in Anims |->
                        IF a # 1 THEN Config2
                        ELSE IF use_spring THEN spring_default(an) ELSE an]

NextSpringAnim ==
    \/ \E d \in JumpArgs : Jump(d)
    \/ Start(1)
    \/ \E ok \in BOOLEAN : Tick(1, ok)
    \/ Pause(1)
    \/ Resume(1)

SpecSpringAnim == InitSpringAnim /\ [][NextSpringAnim]_vars

\* ------------------------------------------------------------------------
\* One Animation configured with a spring, started and ticked
\* ------------------------------------------------------------------------
\* Spring::bouncy and Spring::smooth
BouncyStiffness == 250

BouncyDamping == 15

SmoothStiffness == 400

SmoothDamping == 40

\* the stiffness and damping a caller passes to spring(k, c)
SpringArgs == {<<100, 10>>, <<DefaultStiffness, DefaultDamping>>}

\* the velocities a caller passes to with_velocity, in px/s
GestureVelocityArgs == {0 - 8, 8}

\* the builder asked for these spring parameters
Configured(stiffness, damping) ==
    [ph |-> "configured", stiffness |-> stiffness, damping |-> damping]

ConfigureSpring(a, stiffness, damping) ==
    /\ owner[a] = "built"
    /\ anim[a].state = "Idle"
    /\ anim' = [anim EXCEPT ![a] = spring_with(@, stiffness, damping)]
    /\ hist' = [hist EXCEPT ![a] = Configured(stiffness, damping)]
    /\ fx' = <<>>
    /\ ret' = "Ok"
    /\ UNCHANGED <<gc, spring, now, owner, loop, seq, ch>>

ConfigureSpringBouncy(a) ==
    /\ owner[a] = "built"
    /\ anim[a].state = "Idle"
    /\ anim' = [anim EXCEPT ![a] = spring_bouncy(@)]
    /\ hist' = [hist EXCEPT ![a] = Configured(BouncyStiffness, BouncyDamping)]
    /\ fx' = <<>>
    /\ ret' = "Ok"
    /\ UNCHANGED <<gc, spring, now, owner, loop, seq, ch>>

ConfigureSpringSmooth(a) ==
    /\ owner[a] = "built"
    /\ anim[a].state = "Idle"
    /\ anim' = [anim EXCEPT ![a] = spring_smooth(@)]
    /\ hist' = [hist EXCEPT ![a] = Configured(SmoothStiffness, SmoothDamping)]
    /\ fx' = <<>>
    /\ ret' = "Ok"
    /\ UNCHANGED <<gc, spring, now, owner, loop, seq, ch>>

\* at most one with_velocity call per track
WithVelocity(a, property, velocity) ==
    /\ owner[a] = "built"
    /\ anim[a].state = "Idle"
    /\ Len(anim[a].gesture_velocity) < Len(anim[a].properties)
    /\ anim' = [anim EXCEPT ![a] = with_velocity(@, property, velocity)]
    /\ fx' = <<>>
    /\ ret' = "Ok"
    /\ UNCHANGED <<gc, spring, now, owner, loop, seq, ch, hist>>

InitSpringStart ==
    /\ InitCommon
    /\ anim = [a \in Anims |->
                  IF a = 1 THEN NewAnimation(Tracks, linear, 2, 0, 1, FALSE, TRUE)
                  ELSE Config2]

NextSpringStart ==
    \/ \E d \in JumpArgs : Jump(d)
    \/ \E p \in SpringArgs : ConfigureSpring(1, p[1], p[2])
    \/ ConfigureSpringBouncy(1)
    \/ ConfigureSpringSmooth(1)
    \/ \E property \in {"x", "y", "no-such-property"}, velocity \in GestureVelocityArgs :
           WithVelocity(1, property, velocity)
    \/ Start(1)
    \/ Tick(1, TRUE)

SpecSpringStart == InitSpringStart /\ [][NextSpringStart]_vars

\* ------------------------------------------------------------------------
\* One Animation whose completion callback may call back into its handle
\* ------------------------------------------------------------------------
NextCallback ==
    \/ Advance
    \/ Start(1)
    \/ \E ok \in BOOLEAN : Tick(1, ok)
    \/ \E op \in HandleOps : TickCalling(1, op)
    \/ Pause(1)
    \/ Resume(1)
    \/ Reverse(1)

SpecCallback == Init /\ [][NextCallback]_vars

\* ------------------------------------------------------------------------
\* Properties of the keyframe resolver (specification SpecKeyframes)
\* ------------------------------------------------------------------------
KeyTimesOf(an) == {an.keyframes[i].time : i \in DOMAIN an.keyframes}

\* the keyframe of an Animation at a time
KeyframeOf(an, time) ==
    an.keyframes[CHOOSE i \in DOMAIN an.keyframes : an.keyframes[i].time = time]

\* the pairs of neighbouring keyframe times
AdjacentTimes(an) ==
    {pr \in KeyTimesOf(an) \X KeyTimesOf(an) :
        pr[1] < pr[2] /\ \A u \in KeyTimesOf(an) : ~(pr[1] < u /\ u < pr[2])}

\* every track that both keyframes name has the value interpolated between
\* them at the eased local progress
TracksBetween(an, from, to, local_progress) ==
    \A i \in DOMAIN an.properties :
        LET pt == an.properties[i].property_type
        IN  (Matches(from.properties, pt) # {} /\ Matches(to.properties, pt) # {})
                => an.properties[i].current =
                       interpolate_value(FirstMatch(from.properties, pt),
                                         FirstMatch(to.properties, pt),
                                         solve(an.bezier, local_progress))

\* C15: set_fraction_complete(p) on an Animation with two or more
\* keyframes of distinct times, in whatever order they were added, with p
\* from the first time to the last: the tracks are interpolated between the
\* first pair of neighbouring keyframes (k, k') with k.time <= p <= k'.time
\* at local progress (p - k.time) / (k'.time - k.time).
C15_KeyframeBracket ==
    \A a \in Anims :
        LET an   == anim[a]
            p    == Clamp(hist[a].f, 0, FracDen)
            hits == {pr \in AdjacentTimes(an) : pr[1] <= p /\ p <= pr[2]}
        IN  (hist[a].ph = "scrubbed" /\ an.use_keyframes /\ hits # {})
                => LET pr == CHOOSE x \in hits : \A y \in hits : x[1] <= y[1]
                   IN  \E local_progress \in 0 .. FracDen :
                          /\ local_progress * (pr[2] - pr[1]) = (p - pr[1]) * FracDen
                          /\ TracksBetween(an, KeyframeOf(an, pr[1]), KeyframeOf(an, pr[2]),
                                           local_progress)

\* keyframes added in the order 1, 0, 0.5 and a scrub to 0.25: the pair is
\* (0, 0.5) and the local progress 0.5
C15_Witness ==
    /\ hist[1].ph = "scrubbed"
    /\ hist[1].f = FracDen \div 4
    /\ Len(anim[1].keyframes) = 3
    /\ anim[1].keyframes[1].time = FracDen
    /\ anim[1].keyframes[2].time = 0
    /\ anim[1].keyframes[3].time = FracDen \div 2
    /\ TracksBetween(anim[1], anim[1].keyframes[2], anim[1].keyframes[3], FracDen \div 2)
    /\ ~TracksBetween(anim[1], anim[1].keyframes[3], anim[1].keyframes[1], FracDen \div 2)

\* C16: set_fraction_complete(p) with p before the first keyframe time gives
\* every track the first keyframe names that keyframe's value, and with p
\* after the last keyframe time gives every track the last keyframe names
\* that keyframe's value.
C16_KeyframeClampToEnds ==
    \A a \in Anims :
        LET an   == anim[a]
            p    == Clamp(hist[a].f, 0, FracDen)
            ends == {t \in KeyTimesOf(an) :
                        \/ (p < t /\ \A u \in KeyTimesOf(an) : t <= u)
                        \/ (p > t /\ \A u \in KeyTimesOf(an) : u <= t)}
        IN  (hist[a].ph = "scrubbed" /\ an.use_keyframes)
                => \A t \in ends :
                      \A i \in DOMAIN an.properties :
                          LET kp == KeyframeOf(an, t).properties
                              pt == an.properties[i].property_type
                          IN  Matches(kp, pt) # {}
                                  => an.properties[i].current = CloneValue(FirstMatch(kp, pt))

\* ------------------------------------------------------------------------
\* Properties of interpolate_value and solve (specification SpecPure)
\* ------------------------------------------------------------------------
Called(e) == fx # <<>> /\ fx[1].e = e

\* s + (e - s) * t
Linear(s, e, t) == AddV(Val(s), ScaleV(e - s, t))

\* C17: interpolate_value(start, end, t) with start and end of different
\* variants returns a value (it does not fail), and the value is start, for
\* every t.
C17_MismatchReturnsStart ==
    (Called("interpolate_value") /\ fx[1].start.kind # fx[1].end.kind)
        => ret = CloneValue(fx[1].start)

\* a Length and a Color at t = 0.5: the Length comes back
C17_Witness ==
    /\ Called("interpolate_value")
    /\ fx[1].start = Length(100, "percent")
    /\ fx[1].end = Color(255, 255, 255, 1)
    /\ fx[1].t = FracV(FracDen \div 2)
    /\ ret = LengthCur(Val(100), "percent")

C19_SolveClamps ==
    Called("solve")
        => /\ fx[1].t <= 0 => ret = Val(0)
           /\ fx[1].t >= FracDen => ret = Val(1)

\* solve(-0.5) = 0 on the ease-out curve
C19_Witness ==
    /\ Called("solve")
    /\ fx[1].bezier = easeOutCurve
    /\ fx[1].t = 0 - (FracDen \div 2)
    /\ ret = Val(0)

\* ------------------------------------------------------------------------
\* Properties of scrubbing a single track (specification SpecScrub)
\* ------------------------------------------------------------------------
\* C20: set_fraction_complete(0.5) on an Animation with the linear curve and
\* one track x from 0 to 200 leaves x.current at exactly 100.
C20_LinearHalfIsExact ==
    ( /\ hist[1].ph = "scrubbed"
      /\ hist[1].f = FracDen \div 2
      /\ anim[1].bezier = linear
      /\ anim[1].properties[1].start = Number(0)
      /\ anim[1].properties[1].end = Number(200) )
        => anim[1].properties[1].current = Cur("Number", Val(100))

\* ------------------------------------------------------------------------
\* Properties of the Spring (specification SpecSpring)
\* ------------------------------------------------------------------------
\* C21: a Spring of stiffness 300, damping 30 and mass 1, reset to 0 and
\* stepped 180 times with update(100, 1/60), is at a position p with
\* |p - 100| < 0.1.
C21_SpringConverges ==
    spring.updates = SpringSteps
        => /\ 10 * (spring.sp.current - SpringTarget * SpringDen) < SpringDen
           /\ 10 * (SpringTarget * SpringDen - spring.sp.current) < SpringDen

\* the 180th update has been made and the Spring has moved from 0 to within
\* 0.1 of 100
C21_Witness ==
    /\ spring.updates = SpringSteps
    /\ spring.sp.stiffness = 300
    /\ spring.sp.damping = 30
    /\ spring.sp.mass = 1
    /\ spring.sp.current > (SpringTarget - 1) * SpringDen

\* ------------------------------------------------------------------------
\* Properties of empty coordinators (specification SpecEmpty)
\* ------------------------------------------------------------------------
\* the results that report success
Successes == {"Ok", "True", "False"}

\* C22: play(), pause(), stop() and seek_to() on a Sequencer without steps,
\* and begin_interactive(), update_interactive() and finish_interactive() on
\* a Choreographer without members, return an error.
C22_EmptyCoordinatorIsError ==
    [][ ( \/ /\ seq.steps = <<>>
             /\ Play \/ SeqPause \/ SeqStop \/ \E g \in SeekArgs : SeekTo(g, 0)
          \/ /\ ch.animations = <<>>
             /\ \/ BeginInteractive
                \/ \E f \in ScrubArgs : UpdateInteractive(f, 0)
                \/ \E v \in VelocityArgs : FinishInteractive(v) )
        => ret' \notin Successes ]_vars

\* ------------------------------------------------------------------------
\* Properties of a failing play (specification SpecSeq)
\* ------------------------------------------------------------------------
\* C23: a play() that returns an error leaves the Sequencer's running flag
\* and fraction, and every Animation's state, start_time, fraction_complete
\* and tracks, as they were.
C23_FailedPlayChangesNothing ==
    [][ (Play /\ ret' # "Ok")
        => /\ seq'.running = seq.running
           /\ seq'.fraction = seq.fraction
           /\ \A a \in Anims :
                 /\ anim'[a].state = anim[a].state
                 /\ anim'[a].start_time = anim[a].start_time
                 /\ anim'[a].fraction_complete = anim[a].fraction_complete
                 /\ anim'[a].properties = anim[a].properties ]_vars

\* ------------------------------------------------------------------------
\* Properties of one frame tick (specification SpecSpringAnim)
\* ------------------------------------------------------------------------
\* C24: a frame tick on an Animation that is not Running, or whose
\* start_time the clock has not reached, changes nothing of the Animation
\* and has no effect (no style write, no callback); any other tick sets
\* last_time to the clock and steps every spring by
\* min(now - last_time, 32 ms).
C24_TickGuardAndTimeStep ==
    [][ \A a \in Anims, ok \in BOOLEAN :
          Tick(a, ok)
              => IF anim[a].state # "Running" \/ now < anim[a].start_time
                 THEN anim'[a] = anim[a] /\ fx' = <<>>
                 ELSE /\ anim'[a].last_time = now
                      /\ anim[a].use_spring
                            => \A i \in DOMAIN anim[a].springs :
                                  anim'[a].springs[i] =
                                      update(anim[a].springs[i],
                                             extract_number(anim[a].properties[i].end),
                                             IF now - anim[a].last_time < 32
                                             THEN now - anim[a].last_time ELSE 32,
                                             1000, FALSE, FALSE) ]_vars

\* started at 0 and first ticked at 40: the spring has made one step of 32 ms
C24_Witness ==
    /\ now = 40
    /\ anim[1].use_spring
    /\ anim[1].state = "Running"
    /\ anim[1].start_time = 0
    /\ anim[1].last_time = 40
    /\ anim[1].springs =
           << update(reset(Spring(DefaultStiffness, DefaultDamping), 0), 200, 32, 1000,
                     FALSE, FALSE) >>

\* ------------------------------------------------------------------------
\* Properties of the frame loop (specification SpecFrames)
\* ------------------------------------------------------------------------
\* C25 as stated: after a repaint, the frame callback of an Animation is
\* registered for the next frame exactly if it was registered before and the
\* Animation is Running.
C25_LoopExactlyWhileRunning ==
    [][ now' # now
        => \A a \in Anims : loop'[a] <=> (loop[a] /\ anim'[a].state = "Running") ]_vars

\* C25, amended: after a repaint, the frame callback of an Animation is
\* registered for the next frame exactly if it was registered before and the
\* Animation is not Completed; the loop of a Paused Animation stays
\* registered.
C25_LoopUntilCompleted ==
    [][ now' # now
        => \A a \in Anims : loop'[a] <=> (loop[a] /\ anim'[a].state # "Completed") ]_vars

\* a repaint has passed since the pause and the loop is still registered
C25_Witness ==
    /\ anim[1].state = "Paused"
    /\ now > anim[1].pause_time
    /\ loop[1]

\* ------------------------------------------------------------------------
\* Properties of calls made while the Animation is borrowed (specification
\* SpecCallback)
\* ------------------------------------------------------------------------
\* C26: a handle operation called from inside the completion callback does
\* not fail.
C26_CallFromCallbackSucceeds ==
    \A i \in DOMAIN fx : fx[i].e = "handle_call" => ret \in Successes

\* ------------------------------------------------------------------------
\* Properties of a tick whose apply fails (specification SpecTicks)
\* ------------------------------------------------------------------------
\* the tick of Animation a at this clock passes the guards of animate_frame
\* and its engine reports that the Animation should not continue
Finishing(a) ==
    /\ loop[a]
    /\ anim[a].state = "Running"
    /\ now >= anim[a].start_time
    /\ ~anim[a].use_spring
    /\ progress_of(anim[a], now) = FracDen

\* C27: on every tick whose engine reports "should not continue", completion
\* handling runs in that same tick (the repeat counter is incremented),
\* also when applying the values fails; and a tick whose apply fails leaves
\* the loop registered.
C27_CompletionInSameTick ==
    [][\A ok \in BOOLEAN :
          (Tick(1, ok) /\ Finishing(1))
              => /\ anim'[1].current_repeat = anim[1].current_repeat + 1
                 /\ \E i \in DOMAIN fx' : fx'[i] = Completion(1)
                 /\ (~ok => loop'[1])]_vars

\* ------------------------------------------------------------------------
\* Order of the work of one tick (specification SpecTicks)
\* ------------------------------------------------------------------------
\* C28: a tick first recomputes the tracks, then applies them, then handles
\* completion; on the finishing tick of an auto-reversing iteration the
\* values applied are computed from the start/end pair as it was before the
\* swap.
C28_RecomputeApplyComplete ==
    [][\A ok \in BOOLEAN :
          (Tick(1, ok) /\ fx' # <<>>)
              => /\ fx'[1] = Recompute(1)
                 /\ ok => fx'[2] = Apply(1)
                 /\ \A i \in DOMAIN fx' : fx'[i] = Completion(1) => i = 3
                 /\ \A i \in DOMAIN fx' : fx'[i] = Callback(1) => i = 4
                 /\ (ok /\ Finishing(1) /\ anim[1].auto_reverse /\ anim'[1].state = "Running")
                        => \A i \in DOMAIN anim[1].properties :
                              /\ anim'[1].properties[i].start = anim[1].properties[i].end
                              /\ anim'[1].properties[i].end = anim[1].properties[i].start
                              /\ anim'[1].properties[i].current =
                                     interpolate_value(anim[1].properties[i].start,
                                                       anim[1].properties[i].end,
                                                       solve(anim[1].bezier, FracDen))]_vars

\* the tick that finished the first iteration of an auto-reversing Animation:
\* the pair is swapped and the values are those of the end before the swap
C28_Witness ==
    /\ fx = <<Recompute(1), Apply(1), Completion(1)>>
    /\ anim[1].auto_reverse
    /\ anim[1].state = "Running"
    /\ anim[1].current_repeat = 1
    /\ \A i \in DOMAIN Tracks :
          /\ anim[1].properties[i].start = Tracks[i].end
          /\ anim[1].properties[i].end = Tracks[i].start
          /\ anim[1].properties[i].current = CloneValue(Tracks[i].end)

C30_InteractiveMembersAtRest ==
    [][/\ BeginInteractive => ch'.interactive /\ ch'.fraction = 0
       /\ ch'.interactive
              => \A a \in Anims :
                    Listed(ch'.animations, a) > 0 => anim'[a].state # "Running"
       /\ (ch.interactive /\ Frame)
              => \A a \in Anims :
                    Listed(ch.animations, a) > 0
                        => /\ anim'[a].fraction_complete = anim[a].fraction_complete
                           /\ anim'[a].properties = anim[a].properties]_vars

\* the members of the Choreographer are not Running
MembersAtRest(f, c) == \A a \in Anims : Listed(c.animations, a) > 0 => f[a].state # "Running"

\* C30 (amended): begin_interactive() sets interactive = true and
\* fraction = 0 and leaves no member Running; while the Choreographer stays
\* interactive with the members it had, no member becomes Running and a
\* repaint changes no member.
C30_MembersAtRestWhileListUnchanged ==
    [][/\ BeginInteractive
              => ch'.interactive /\ ch'.fraction = 0 /\ MembersAtRest(anim', ch')
       /\ ( /\ ch.interactive
            /\ ch'.interactive
            /\ ch'.animations = ch.animations
            /\ MembersAtRest(anim, ch) )
              => /\ MembersAtRest(anim', ch')
                 /\ Frame => \A a \in Anims :
                                Listed(ch.animations, a) > 0 => anim'[a] = anim[a]]_vars

\* a repaint has run the registered frame callbacks of two members that
\* begin_interactive() had paused
C30_Witness ==
    /\ ch.interactive
    /\ ch.fraction = 0
    /\ fx = <<>>
    /\ \A a \in Anims :
          /\ Listed(ch.animations, a) = 1
          /\ loop[a]
          /\ anim[a].state = "Paused"
          /\ anim[a].pause_time < now

\* ------------------------------------------------------------------------
\* Properties of the GestureController (specification SpecGesture)
\* ------------------------------------------------------------------------
\* C31: on_tap_up clears tracking; with no Animation connected it does
\* nothing else; with one connected whose fraction is c, and the last
\* velocity v, it only resumes the Animation when c > 0.5 or v > 0.3, and
\* otherwise reverses it (tracks swapped, fraction 0, Running) and resumes.
C31_TapUpCommitsOrReverses ==
    [][OnTapUp
          => /\ gc' = [gc EXCEPT !.tracking = FALSE]
             /\ \A a \in Anims : a # gc.animation => anim'[a] = anim[a]
             /\ gc.animation # 0
                    => LET an == anim[gc.animation]
                           n  == anim'[gc.animation]
                       IN  IF \/ 2 * get_fraction_complete(an) > FineDen
                              \/ 10 * gc.velocity.num > 3 * gc.velocity.den
                           THEN IF an.state = "Paused"
                                THEN n = [an EXCEPT !.state = "Running",
                                                    !.start_time = @ + (now - an.pause_time)]
                                ELSE n = an
                           ELSE /\ n.state = "Running"
                                /\ n.fraction_complete = 0 /\ n.fraction_fine = 0
                                /\ n.start_time = now
                                /\ \A i \in DOMAIN an.properties :
                                      /\ n.properties[i].start = an.properties[i].end
                                      /\ n.properties[i].end = an.properties[i].start
                                      /\ n.properties[i].current = an.properties[i].current]_vars

\* the pointer went up after a slow move that had scrubbed the Animation to
\* 0.05: the Animation was reversed
C31_Witness ==
    /\ ~gc.tracking
    /\ gc.animation = 1
    /\ gc.fraction = FineDen \div 20
    /\ gc.velocity.num > 0
    /\ ~fast(gc.velocity)
    /\ anim[1].state = "Running"
    /\ anim[1].fraction_complete = 0
    /\ anim[1].properties[1].start = Number(200)
    /\ anim[1].properties[1].end = Number(0)

\* C32: on_tap_move changes nothing unless tracking; while tracking, with an
\* Animation connected whose fraction is c, a sample at y sets the fraction
\* to clamp(c - clamp((y - start_y) / 500, -0.1, 0.1), 0, 1): the fraction
\* moves by at most 0.1 and stays in [0, 1].
C32_TapMoveStepsFraction ==
    [][\A y \in YArgs, ok \in BOOLEAN :
          ( /\ gc.tracking => gc'.current_y = y
            /\ (gc.tracking /\ gc.animation # 0)
                   => fx' = <<Recompute(gc.animation),
                              IF ok THEN Apply(gc.animation) ELSE ApplyFailed(gc.animation)>>
            /\ OnTapMove(y, MoveTimestamp, ok) )
              => IF ~gc.tracking
                 THEN gc' = gc /\ anim' = anim
                 ELSE gc.animation # 0
                        => LET c   == get_fraction_complete(anim[gc.animation])
                               new == get_fraction_complete(anim'[gc.animation])
                               d   == ((y - gc.start_y) * FineDen) \div 500
                               cap == FineDen \div 10
                               delta == IF d < 0 - cap THEN 0 - cap
                                        ELSE IF d > cap THEN cap ELSE d
                           IN  /\ ((y - gc.start_y) * FineDen) % 500 = 0
                               /\ new = (IF c - delta < 0 THEN 0
                                         ELSE IF c - delta > FineDen THEN FineDen
                                         ELSE c - delta)
                               /\ new - c <= cap /\ c - new <= cap
                               /\ new \in 0 .. FineDen
                               /\ gc'.fraction = new]_vars

\* a sample 100 px below the start has just moved the fraction from 0.5 down
\* by the cap, to 0.4
C32_Witness ==
    /\ gc.tracking
    /\ gc.animation = 1
    /\ gc.current_y - gc.start_y = 100
    /\ fx = <<Recompute(1), Apply(1)>>
    /\ gc.fraction = 4 * (FineDen \div 10)
    /\ get_fraction_complete(anim[1]) = 4 * (FineDen \div 10)
    /\ anim[1].fraction_fine # 0

\* ------------------------------------------------------------------------
\* Properties of the springs of a started Animation (specification
\* SpecSpringStart)
\* ------------------------------------------------------------------------
\* C33: when a spring-driven Animation is started there is exactly one
\* spring per track, each at its track's start value; the spring of a track
\* for which with_velocity gave a velocity v starts with velocity v, every
\* other spring with velocity 0.
C33_SpringsStartWithGestureVelocity ==
    [][(Start(1) /\ anim[1].use_spring)
          => LET an == anim'[1]
             IN  /\ Len(an.springs) = Len(an.properties)
                 /\ \A i \in DOMAIN an.springs :
                       LET found == {j \in DOMAIN an.gesture_velocity :
                                        an.gesture_velocity[j][1]
                                            = an.properties[i].property_type}
                       IN  /\ an.springs[i].current
                                  = extract_number(an.properties[i].start) * SpringDen
                           /\ found = {} => an.springs[i].velocity = 0
                           /\ \A j \in found :
                                 (\A k \in found : j <= k)
                                     => an.springs[i].velocity
                                            = an.gesture_velocity[j][2] * SpringDen]_vars

\* C34: after spring(k, c), spring_bouncy or spring_smooth and start(), every
\* spring of the Animation has the stiffness and damping that were asked for.
C34_SpringsUseConfiguredParameters ==
    [][(Start(1) /\ hist[1].ph = "configured")
          => /\ anim'[1].springs # <<>>
             /\ \A i \in DOMAIN anim'[1].springs :
                   /\ anim'[1].springs[i].stiffness = hist[1].stiffness
                   /\ anim'[1].springs[i].damping = hist[1].damping]_vars

\* ------------------------------------------------------------------------
\* Properties of a Spring at rest (specification SpecSpringRest)
\* ------------------------------------------------------------------------
\* C35: a spring at rest on its target is a fixed point of update: with
\* position = target and velocity = 0, update(target, dt) leaves the position
\* and the velocity 0, whatever dt, stiffness and damping; and reset(v)
\* leaves position = v and velocity = 0.
C35_RestIsFixedPoint ==
    [][/\ \A target \in PositionArgs, dt \in TimeStepArgs :
             ( /\ spring.sp.current = target * SpringDen
               /\ spring.sp.velocity = 0
               /\ SpringUpdate(target, dt[1], dt[2]) )
                 => /\ spring'.sp.current = spring.sp.current
                    /\ spring'.sp.velocity = 0
       /\ \A value \in PositionArgs :
             SpringReset(value)
                 => /\ spring'.sp.current = value * SpringDen
                    /\ spring'.sp.velocity = 0]_vars

\* a moving spring was reset to 50 and then updated towards 50
C35_Witness ==
    /\ spring.updates = 1
    /\ spring.sp.stiffness = DefaultStiffness
    /\ spring.sp.damping = DefaultDamping
    /\ spring.sp.current = 50 * SpringDen
    /\ spring.sp.velocity = 0

\* ------------------------------------------------------------------------
\* One Animation driven through its handle and through a Sequencer, one
\* repaint per millisecond
\* ------------------------------------------------------------------------
NextRevive ==
    \/ Frame
    \/ Start(1)
    \/ Pause(1)
    \/ Resume(1)
    \/ Stop(1)
    \/ Reverse(1)
    \/ AddStep(1, 0)
    \/ Play
    \/ SeqStop

SpecRevive == Init /\ [][NextRevive]_vars

\* C36: once a repaint has found the started Animation Completed (it completed
\* in that repaint, or stop() came before it), its frame callback is gone for
\* good: no later step registers it again, and although reverse() or
\* start_internal() (Sequencer.play()) make the state Running, repaints leave
\* fraction_complete and every track value as they are.  A reverse() or
\* start_internal() that comes after stop() and before the next repaint finds
\* the callback still registered and keeps it.
C36_CompletedTickEndsLoopForGood ==
    [][ /\ (loop[1] /\ now' # now /\ anim'[1].state = "Completed") => ~loop'[1]
        /\ (owner[1] = "handle" /\ ~loop[1])
              => /\ ~loop'[1] /\ owner'[1] = "handle"
                 /\ now' # now
                       => /\ anim'[1].fraction_complete = anim[1].fraction_complete
                          /\ anim'[1].properties = anim[1].properties
                          /\ anim'[1].state = anim[1].state
        /\ (loop[1] /\ anim[1].state = "Completed" /\ now' = now
                    /\ anim'[1].state = "Running")
              => loop'[1] ]_vars

\* a started Animation that reverse() or play() made Running after its frame
\* callback was gone: the clock has moved on and nothing has advanced
C36_Witness ==
    /\ owner[1] = "handle" /\ ~loop[1]
    /\ anim[1].state = "Running"
    /\ now >= anim[1].start_time + anim[1].delay + anim[1].duration
    /\ anim[1].duration > 0
    /\ anim[1].fraction_complete = 0

\* ------------------------------------------------------------------------
\* One Animation driven through its own interface and its frame loop, the
\* caller passing NaN to set_fraction_complete too
\* ------------------------------------------------------------------------
\* set_fraction_complete(f64::NAN)
SetFractionCompleteNaN(a, applyOk) ==
    /\ Held(a)
    /\ anim' = [anim EXCEPT ![a] = set_fraction_complete_nan(anim[a])]
    /\ Forget(a)
    /\ fx' = <<Recompute(a), IF applyOk THEN Apply(a) ELSE ApplyFailed(a)>>
    /\ ret' = IF applyOk THEN "Ok" ELSE "ApplyError"
    /\ UNCHANGED <<gc, spring, now, owner, loop, seq, ch>>

NextRange ==
    \/ Advance
    \/ \E ok \in BOOLEAN : Tick(1, ok)
    \/ Start(1)
    \/ StartInternal(1)
    \/ Pause(1)
    \/ Resume(1)
    \/ Stop(1)
    \/ Reverse(1)
    \/ \E f \in FractionArgs, ok \in BOOLEAN : SetFractionComplete(1, f, ok)
    \/ \E ok \in BOOLEAN : SetFractionCompleteNaN(1, ok)

SpecRange == Init /\ [][NextRange]_vars

\* C37: whatever the calls and repaints, fraction_complete of an Animation
\* with a positive duration is a number from 0 to 1.
C37_FractionInUnitInterval ==
    \A a \in Anims :
        anim[a].duration > 0
            => /\ ~anim[a].fraction_nan
               /\ get_fraction_complete(anim[a]) >= 0
               /\ get_fraction_complete(anim[a]) <= FineDen

\* the same for the fractions that are numbers: every argument but NaN
C37_NumbersInUnitInterval ==
    \A a \in Anims :
        (anim[a].duration > 0 /\ ~anim[a].fraction_nan)
            => /\ get_fraction_complete(anim[a]) >= 0
               /\ get_fraction_complete(anim[a]) <= FineDen

\* ------------------------------------------------------------------------
\* A Sequencer built step by step from two started Animations of any
\* non-negative durations
\* ------------------------------------------------------------------------
MaxSteps == 4

\* the durations of the two Animations, in ms
DurationArgs == {0, 1, 3}

\* the overlaps a caller passes, in FracDen-ths: below 0, sequential, a
\* quarter, parallel, above 1
BuildOverlapArgs == {0 - FracDen, 0, FracDen \div 4, FracDen, FracDen + 1}

InitSteps ==
    /\ InitCommon
    /\ \E d1, d2 \in DurationArgs :
          anim = [a \in Anims |->
                    NewAnimation(Tracks, linear, IF a = 1 THEN d1 ELSE d2, 0, 1, FALSE, TRUE)]

\* Sequencer::add_step on a table of fewer than MaxSteps steps
AddStepTo(a, overlap) ==
    /\ owner[a] = "handle"
    /\ Len(seq.steps) < MaxSteps
    /\ seq' = add_step(seq, a, anim[a].duration, overlap)
    /\ fx' = <<>>
    /\ ret' = "Ok"
    /\ UNCHANGED <<gc, spring, now, anim, owner, loop, ch, hist>>

NextSteps ==
    \/ \E a \in Anims : Start(a)
    \/ \E a \in Anims, o \in BuildOverlapArgs : AddStepTo(a, o)

SpecSteps == InitSteps /\ [][NextSteps]_vars

\* the end of a step, in FracDen-ths of a millisecond
StepEnd(step) == step.start + step.duration * FracDen

C39_CancelledIsSticky ==
    [][ch.cancelled => ch'.cancelled]_vars

\* a finish_interactive has just committed a member that was paused and
\* scrubbed after the cancel, and cancelled is still true
C39_Witness ==
    /\ ch.cancelled /\ ~ch.interactive
    /\ ret = "True"
    /\ \E a \in Anims : hist[a].ph = "committed"

\* ------------------------------------------------------------------------
\* One spring-driven Animation under its frame loop, its handle and a
\* GestureController
\* ------------------------------------------------------------------------
\* a single track x that is already at its target
StillTrack == << Track("X", 100, 100) >>

\* the fraction a caller scrubs to, in FracDen-ths
SpringScrubArg == (3 * FracDen) \div 4

\* the last clock time of the scenario, in ms
SpringGestureClock == 32

\* the Animation is started at clock 0: the moving track played once, the
\* still track repeated, with and without auto-reverse
InitSpringGesture ==
    /\ InitCommon
    /\ \E c \in { <<OneTrack, 1, FALSE>>, <<StillTrack, MaxRepeat, FALSE>>,
                  <<StillTrack, MaxRepeat, TRUE>> } :
          anim = [a \in Anims |->
                    IF a = 1
                    THEN spring_default(NewAnimation(c[1], linear, 2, 0, c[2], c[3], TRUE))
                    ELSE Config2]

NextSpringGesture ==
    \/ now < SpringGestureClock /\ Jump(16)
    \/ now = 0 /\ Start(1)
    \/ Tick(1, TRUE)
    \/ SetFractionComplete(1, SpringScrubArg, TRUE)
    \/ ConnectAnimation(1)
    \/ OnTapDown(0, 0)
    \/ \E y \in {25, 100} : OnTapMove(y, MoveTimestamp, TRUE)
    \/ OnTapUp

SpecSpringGesture == InitSpringGesture /\ [][NextSpringGesture]_vars

\* C40 as stated: a frame tick of a spring-driven Animation leaves
\* fraction_complete as it was.
C40_TicksKeepFraction ==
    [][(anim[1].use_spring /\ Tick(1, TRUE))
           => get_fraction_complete(anim'[1]) = get_fraction_complete(anim[1])]_vars

\* a step that scrubs Animation 1: set_fraction_complete through the handle
\* or through on_tap_move of the gesture bound to it
ScrubStep ==
    \/ SetFractionComplete(1, SpringScrubArg, TRUE)
    \/ gc.tracking /\ gc.animation = 1 /\ \E y \in {25, 100} : OnTapMove(y, MoveTimestamp, TRUE)

\* C40: a frame tick of a spring-driven Animation leaves fraction_complete
\* as it was, except the tick that completes a repeat that is not the last,
\* which sets it to 0; so a fraction_complete of 0 stays 0 through every step
\* that is not a scrub, and on_tap_up of a gesture bound to such an
\* Animation commits (resume only) exactly when the velocity is above 0.3 and
\* reverses otherwise.
C40_TicksKeepOrZeroFraction ==
    [][ /\ (anim[1].use_spring /\ Tick(1, TRUE))
              => \/ get_fraction_complete(anim'[1]) = get_fraction_complete(anim[1])
                 \/ /\ get_fraction_complete(anim'[1]) = 0
                    /\ anim'[1].state = "Running"
                    /\ anim'[1].current_repeat = anim[1].current_repeat + 1
        /\ (anim[1].use_spring /\ get_fraction_complete(anim[1]) = 0 /\ ~ScrubStep)
              => get_fraction_complete(anim'[1]) = 0
        /\ (anim[1].use_spring /\ get_fraction_complete(anim[1]) = 0
                    /\ gc.animation = 1 /\ gc.tracking /\ ~gc'.tracking)
              => anim'[1] = IF fast(gc.velocity)
                            THEN resume(anim[1], now)
                            ELSE resume(reverse(anim[1], now), now) ]_vars

\* the springs have moved the track over several ticks, fraction_complete is
\* still 0, and a fast gesture has just been released on the Animation
C40_Witness ==
    /\ anim[1].use_spring /\ anim[1].state = "Running"
    /\ anim[1].last_time >= 32
    /\ anim[1].properties[1].current # CloneValue(anim[1].properties[1].start)
    /\ get_fraction_complete(anim[1]) = 0
    /\ gc.animation = 1 /\ ~gc.tracking /\ fast(gc.velocity)

====
